---- MODULE Spec2Model ----
(***************************************************************************)
(* Model of FlumphBot's event classifier and availability resolver         *)
(* (flumphbot.calendar.event_analyzer.EventAnalyzer), of the data model it *)
(* works on (flumphbot.calendar.models), of the session event the poll     *)
(* manager builds (flumphbot.bot.polls) and of the bot's handling of its   *)
(* analyzer (flumphbot.bot.client, the keyword commands of                 *)
(* flumphbot.bot.commands); of the polls the poll manager opens, counts    *)
(* and closes over the SQLite storage (flumphbot.storage.sqlite), of the   *)
(* calendar client (flumphbot.calendar.google_client), of the scheduled    *)
(* jobs (flumphbot.scheduler.tasks) and of the triggers they are given     *)
(* (flumphbot.scheduler.runner).                                           *)
(*                                                                         *)
(* Python values are modelled as follows.                                  *)
(*   str       a sequence of one-character strings                         *)
(*   None | x  a record [isNone |-> TRUE] or [isNone |-> FALSE, val |-> x] *)
(*   datetime  a record [ord, hour, minute, aware, off]: the proleptic     *)
(*             ordinal of the day (date.toordinal()), the hour and minute  *)
(*             of the day, whether a tzinfo is attached and its UTC offset *)
(*             in hours                                                    *)
(*   list      where the identity of a list matters (the keyword lists the *)
(*             bot hands to its analyzers), an index into heap             *)
(***************************************************************************)
EXTENDS Integers, Sequences, FiniteSets, TLC

VARIABLES
    ctor_args,          \* the arguments EventAnalyzer.__init__ was called with
    dnd_keywords,       \* EventAnalyzer.dnd_keywords
    away_keywords,      \* EventAnalyzer.away_keywords
    personal_keywords,  \* EventAnalyzer.personal_keywords
    pc,                 \* "ready": the analyzer is idle; "returned": a call has returned
    op,                 \* the method that was called last
    event,              \* its CalendarEvent argument
    events,             \* its list[CalendarEvent] argument
    start_date,         \* find_available_dates: start_date
    days_ahead,         \* find_available_dates: days_ahead
    preferred_day,      \* find_available_dates: preferred_day
    ret,                \* the value the call returned
    args,               \* the arguments as the caller passed them
    stored,             \* storage: the keyword list kept for each category, if any
    heap,               \* the list objects that outlive a call; a list is named by its index
    built,              \* the EventAnalyzer objects built by the bot, oldest first
    bot_event_analyzer, \* FlumphBot._event_analyzer: an index of built, or None
    handler,            \* the setup hook or keyword command in progress and its locals
    held,               \* an analyzer a job took from bot.event_analyzer earlier
    db,                 \* storage: the polls, poll options, settings and user mappings
    discord,            \* the channel's poll messages, the notifications and the DMs sent
    gcal,               \* the shared calendar: its events as the API serves them
    tasks,              \* the scheduled jobs and commands in progress and their locals
    now,                \* the clock: the minutes since the start of the day of ordinal 0
    scheduler           \* AsyncIOScheduler: the trigger of each job id

vars == <<ctor_args, dnd_keywords, away_keywords, personal_keywords, pc, op,
          event, events, start_date, days_ahead, preferred_day, ret, args,
          stored, heap, built, bot_event_analyzer, handler, held,
          db, discord, gcal, tasks, now, scheduler>>

-----------------------------------------------------------------------------
(* Python built-ins used by the analyzer *)

None == [isNone |-> TRUE]
Some(x) == [isNone |-> FALSE, val |-> x]

\* F(x) for the value of x: Python evaluates an argument before the call
by_value(F(_), x) == CHOOSE y \in {F(v) : v \in {x}} : TRUE

\* bool(x) for x: list | str | None  (what `x or default` and `if x` test)
truthy(x) == ~x.isNone /\ x.val # <<>>

\* x or default
or_else(x, default) == IF truthy(x) THEN x.val ELSE default

UpperCase == <<"A", "B", "C", "D", "E", "F", "G", "H", "I", "J", "K", "L", "M",
               "N", "O", "P", "Q", "R", "S", "T", "U", "V", "W", "X", "Y", "Z">>
LowerCase == <<"a", "b", "c", "d", "e", "f", "g", "h", "i", "j", "k", "l", "m",
               "n", "o", "p", "q", "r", "s", "t", "u", "v", "w", "x", "y", "z">>
Digits == {"0", "1", "2", "3", "4", "5", "6", "7", "8", "9"}

Range(s) == {s[i] : i \in DOMAIN s}

\* the lower-case letter of each upper-case letter
LowerOf ==
    ("A" :> "a") @@ ("B" :> "b") @@ ("C" :> "c") @@ ("D" :> "d") @@ ("E" :> "e")
    @@ ("F" :> "f") @@ ("G" :> "g") @@ ("H" :> "h") @@ ("I" :> "i") @@ ("J" :> "j")
    @@ ("K" :> "k") @@ ("L" :> "l") @@ ("M" :> "m") @@ ("N" :> "n") @@ ("O" :> "o")
    @@ ("P" :> "p") @@ ("Q" :> "q") @@ ("R" :> "r") @@ ("S" :> "s") @@ ("T" :> "t")
    @@ ("U" :> "u") @@ ("V" :> "v") @@ ("W" :> "w") @@ ("X" :> "x") @@ ("Y" :> "y")
    @@ ("Z" :> "z")

lower_char(c) == IF c \in DOMAIN LowerOf THEN LowerOf[c] ELSE c

\* str.lower()
lower(s) == [i \in 1..Len(s) |-> lower_char(s[i])]

\* sub in s, for strings
contains(sub, s) ==
    \E i \in 1..(Len(s) - Len(sub) + 1) : SubSeq(s, i, i + Len(sub) - 1) = sub

-----------------------------------------------------------------------------
(* The part of the re module the analyzer uses *)

\* the characters re.escape() puts a backslash before
ReSpecialChars == {"(", ")", "[", "]", "{", "}", "?", "*", "+", "-", "|", "^",
                   "$", "\\", ".", "&", "~", "#", " "}

RECURSIVE re_escape(_)
re_escape(s) ==
    IF s = <<>> THEN <<>>
    ELSE (IF Head(s) \in ReSpecialChars THEN <<"\\", Head(s)>> ELSE <<Head(s)>>)
         \o re_escape(Tail(s))

\* the compiled form of a pattern: a sequence of tokens, each the assertion
\* \b or one literal character
WordBoundary == [kind |-> "boundary", ch |-> ""]
Literal(c) == [kind |-> "literal", ch |-> c]

RECURSIVE re_compile(_)
re_compile(p) ==
    IF p = <<>> THEN <<>>
    ELSE IF Head(p) = "\\" /\ Len(p) >= 2
         THEN <<IF p[2] = "b" THEN WordBoundary ELSE Literal(p[2])>>
              \o re_compile(SubSeq(p, 3, Len(p)))
         ELSE <<Literal(Head(p))>> \o re_compile(Tail(p))

\* \w
WordChars == Range(UpperCase) \cup Range(LowerCase) \cup Digits \cup {"_"}

is_word_char(c) == c \in WordChars

\* \b holds between text[pos] and text[pos + 1] (positions outside the text
\* count as non-word characters)
at_word_boundary(text, pos) ==
    (pos >= 1 /\ is_word_char(text[pos]))
        # (pos < Len(text) /\ is_word_char(text[pos + 1]))

RECURSIVE re_match_at(_, _, _, _, _)
re_match_at(tokens, text, pos, k, ignorecase) ==
    IF k > Len(tokens) THEN TRUE
    ELSE IF tokens[k].kind = "boundary"
         THEN at_word_boundary(text, pos)
              /\ re_match_at(tokens, text, pos, k + 1, ignorecase)
         ELSE /\ pos < Len(text)
              /\ IF ignorecase
                 THEN lower_char(text[pos + 1]) = lower_char(tokens[k].ch)
                 ELSE text[pos + 1] = tokens[k].ch
              /\ re_match_at(tokens, text, pos + 1, k + 1, ignorecase)

\* re.search(pattern, text, flags) is not None
re_search(pattern, text, ignorecase) ==
    \E pos \in 0..Len(text) : re_match_at(re_compile(pattern), text, pos, 1, ignorecase)

-----------------------------------------------------------------------------
(* flumphbot.calendar.models *)

BUSY == "opaque"
FREE == "transparent"
EventStatus == {BUSY, FREE}

datetime(o, h, a, f) == [ord |-> o, hour |-> h, minute |-> 0, aware |-> a, off |-> f]

CalendarEvent(i, s, st, en, status, d, ad) ==
    [id |-> i, summary |-> s, start |-> st, end |-> en, status |-> status,
     description |-> d, all_day |-> ad]

AvailabilitySlot(d) == [date |-> d, start_time |-> None, end_time |-> None]

-----------------------------------------------------------------------------
(* flumphbot.calendar.event_analyzer *)

DND == "dnd"
AWAY == "away"
PERSONAL == "personal"
CATEGORY_OTHER == "other"   \* EventCategory.OTHER (OTHER is a reserved word)
EventCategory == {DND, AWAY, PERSONAL, CATEGORY_OTHER}

DEFAULT_DND_KEYWORDS ==
    << <<"D", "&", "D">>,
       <<"D", "N", "D">>,
       <<"D", "u", "n", "g", "e", "o", "n", "s">>,
       <<"C", "a", "m", "p", "a", "i", "g", "n">>,
       <<"S", "e", "s", "s", "i", "o", "n">> >>

DEFAULT_AWAY_KEYWORDS ==
    << <<"A", "w", "a", "y">>,
       <<"U", "n", "a", "v", "a", "i", "l", "a", "b", "l", "e">>,
       <<"H", "o", "l", "i", "d", "a", "y">>,
       <<"V", "a", "c", "a", "t", "i", "o", "n">>,
       <<"B", "u", "s", "y">>,
       <<"P", "T", "O">>,
       <<"T", "i", "m", "e", " ", "O", "f", "f">>,
       <<"O", "u", "t", " ", "o", "f", " ", "O", "f", "f", "i", "c", "e">>,
       <<"O", "O", "O">>,
       <<"T", "r", "i", "p">>,
       <<"T", "r", "a", "v", "e", "l">> >>

DEFAULT_PERSONAL_KEYWORDS ==
    << <<"b", "i", "r", "t", "h", "d", "a", "y">>,
       <<"d", "o", "c", "t", "o", "r">>,
       <<"d", "e", "n", "t", "i", "s", "t">>,
       <<"a", "p", "p", "o", "i", "n", "t", "m", "e", "n", "t">>,
       <<"i", "n", "t", "e", "r", "v", "i", "e", "w">>,
       <<"t", "h", "e", "r", "a", "p", "y">>,
       <<"m", "e", "d", "i", "c", "a", "l">> >>

\* any(kw.lower() in title for kw in keywords)
RECURSIVE any_keyword_in(_, _)
any_keyword_in(keywords, title) ==
    IF keywords = <<>> THEN FALSE
    ELSE IF contains(lower(Head(keywords)), title) THEN TRUE
         ELSE any_keyword_in(Tail(keywords), title)

\* is_dnd_session with the keyword compared as configured, not lower-cased
is_dnd_session_cased(e) ==
    \E i \in DOMAIN dnd_keywords : contains(dnd_keywords[i], lower(e.summary))

is_dnd_session(e) == any_keyword_in(dnd_keywords, lower(e.summary))

is_away_event(e) == any_keyword_in(away_keywords, lower(e.summary))

\* the pattern without its \b anchors
personal_pattern_unanchored(keyword) == re_escape(keyword)

\* rf"\b{re.escape(keyword)}\b"
personal_pattern(keyword) == <<"\\", "b">> \o re_escape(keyword) \o <<"\\", "b">>

RECURSIVE detect_loop(_, _, _)
detect_loop(keywords, text, matched) ==
    IF keywords = <<>> THEN matched
    ELSE detect_loop(Tail(keywords), text,
                     IF re_search(personal_pattern(Head(keywords)), text, TRUE)
                     THEN Append(matched, Head(keywords))
                     ELSE matched)

detect_personal_keywords(e) ==
    LET text == lower(e.summary \o <<" ">> \o or_else(e.description, <<>>))
    IN  detect_loop(personal_keywords, text, <<>>)

\* get_category with the away check ahead of the D&D check
get_category_away_first(e) ==
    IF is_away_event(e) THEN AWAY
    ELSE IF is_dnd_session(e) THEN DND
    ELSE IF detect_personal_keywords(e) # <<>> THEN PERSONAL
    ELSE CATEGORY_OTHER

get_category(e) ==
    IF is_dnd_session(e) THEN DND
    ELSE IF is_away_event(e) THEN AWAY
    ELSE IF detect_personal_keywords(e) # <<>> THEN PERSONAL
    ELSE CATEGORY_OTHER

\* should_be_free that answers for Busy events only
should_be_free_busy_only(e) == e.status = BUSY /\ ~is_dnd_session(e)

should_be_free(e) == ~is_dnd_session(e)

AnalysisResult(e, free, personal, dnd, matched, category) ==
    [event |-> e, should_be_free |-> free, is_personal |-> personal,
     is_dnd_session |-> dnd, matched_keywords |-> matched, category |-> category]

\* analyze_event that calls an event personal when its category is PERSONAL
analyze_event_personal_by_category(e) ==
    AnalysisResult(e, should_be_free(e), get_category(e) = PERSONAL, is_dnd_session(e),
                   detect_personal_keywords(e), get_category(e))

analyze_event(e) ==
    LET is_dnd == is_dnd_session(e)
        matched_keywords == detect_personal_keywords(e)
        category == get_category(e)
    IN  AnalysisResult(e, should_be_free(e), Len(matched_keywords) > 0, is_dnd,
                       matched_keywords, category)

\* find_personal_events that keeps the results of category PERSONAL
RECURSIVE find_personal_events_by_category(_)
find_personal_events_by_category(evs) ==
    IF evs = <<>> THEN <<>>
    ELSE LET result == analyze_event(Head(evs))
         IN  (IF result.category = PERSONAL THEN <<result>> ELSE <<>>)
                 \o find_personal_events_by_category(Tail(evs))

\* the loop of find_personal_events
RECURSIVE find_personal_events(_)
find_personal_events(evs) ==
    IF evs = <<>> THEN <<>>
    ELSE LET result == analyze_event(Head(evs))
         IN  (IF result.is_personal THEN <<result>> ELSE <<>>)
                 \o find_personal_events(Tail(evs))

\* find_events_needing_fix without the test of the current status
RECURSIVE find_events_needing_fix_any_status(_)
find_events_needing_fix_any_status(evs) ==
    IF evs = <<>> THEN <<>>
    ELSE (IF ~is_dnd_session(Head(evs)) THEN <<Head(evs)>> ELSE <<>>)
         \o find_events_needing_fix_any_status(Tail(evs))

\* the loop of find_events_needing_fix
RECURSIVE find_events_needing_fix(_)
find_events_needing_fix(evs) ==
    IF evs = <<>> THEN <<>>
    ELSE (IF should_be_free(Head(evs)) /\ Head(evs).status = BUSY
          THEN <<Head(evs)>> ELSE <<>>)
         \o find_events_needing_fix(Tail(evs))

\* the instant of an aware datetime, in minutes (what == and hash() go by)
utc_minutes(d) == (d.ord * 24 + d.hour - d.off) * 60 + d.minute

\* (a - b).days for two naive or two aware datetimes (timedelta normalises
\* with floor division, as \div does)
timedelta_days(a, b) ==
    IF a.aware
    THEN (utc_minutes(a) - utc_minutes(b)) \div 1440
    ELSE (((a.ord * 24 + a.hour) * 60 + a.minute)
          - ((b.ord * 24 + b.hour) * 60 + b.minute)) \div 1440

\* find_away_events that takes every all-day event of a day or more
RECURSIVE find_away_events_one_day(_)
find_away_events_one_day(evs) ==
    IF evs = <<>> THEN <<>>
    ELSE (IF is_away_event(Head(evs)) THEN <<Head(evs)>>
          ELSE IF Head(evs).all_day
                  /\ (Head(evs).end.ord - Head(evs).start.ord) >= 1
               THEN <<Head(evs)>>
               ELSE <<>>)
         \o find_away_events_one_day(Tail(evs))

\* the loop of find_away_events
RECURSIVE find_away_events(_)
find_away_events(evs) ==
    IF evs = <<>> THEN <<>>
    ELSE (IF is_away_event(Head(evs)) THEN <<Head(evs)>>
          ELSE IF Head(evs).all_day
                  /\ timedelta_days(Head(evs).end, Head(evs).start) > 1
               THEN <<Head(evs)>>
               ELSE <<>>)
         \o find_away_events(Tail(evs))

\* an event after a call that sets the status the analyzer recommends for it
passed_event_fixed(name, e) ==
    IF name = "should_be_free" /\ should_be_free(e) THEN [e EXCEPT !.status = FREE] ELSE e

\* the event a method was given, after the call: no method assigns to a field
\* of it
passed_event(name, e) == e

\* a list of events after a call that sets the events it returns to FREE
passed_events_fixed(name, evs) ==
    IF name = "find_events_needing_fix"
    THEN [i \in DOMAIN evs |->
             IF should_be_free(evs[i]) THEN [evs[i] EXCEPT !.status = FREE] ELSE evs[i]]
    ELSE evs

\* the list of events a method was given, after the call: no method assigns
\* to the list, to an element of it or to a field of an element
passed_events(name, evs) == evs

\* d.replace(hour=0, minute=0, second=0, microsecond=0): tzinfo is kept
midnight(d) == [d EXCEPT !.hour = 0, !.minute = 0]

\* d + timedelta(days=n)
add_days(d, n) == [d EXCEPT !.ord = @ + n]

\* a == b for datetimes: naive ones compare their fields, aware ones their
\* instants, and a naive one never equals an aware one
datetime_eq(a, b) ==
    IF a.aware /\ b.aware THEN utc_minutes(a) = utc_minutes(b)
    ELSE IF ~a.aware /\ ~b.aware
         THEN a.ord = b.ord /\ a.hour = b.hour /\ a.minute = b.minute
    ELSE FALSE

\* d in s, for a set of datetimes
datetime_in(d, s) == \E b \in s : datetime_eq(d, b)

DayNames ==
    << <<"M", "o", "n", "d", "a", "y">>,
       <<"T", "u", "e", "s", "d", "a", "y">>,
       <<"W", "e", "d", "n", "e", "s", "d", "a", "y">>,
       <<"T", "h", "u", "r", "s", "d", "a", "y">>,
       <<"F", "r", "i", "d", "a", "y">>,
       <<"S", "a", "t", "u", "r", "d", "a", "y">>,
       <<"S", "u", "n", "d", "a", "y">> >>

\* d.strftime("%A"); date.weekday() is (toordinal() + 6) % 7, Monday = 0
strftime_A(d) == DayNames[((d.ord + 6) % 7) + 1]

\* the loop that fills blocked_dates
RECURSIVE blocked_dates(_)
blocked_dates(evs) ==
    IF evs = <<>> THEN {}
    ELSE {midnight(Head(evs).start)} \cup blocked_dates(Tail(evs))

\* the loop with preferred_day compared as given, not lower-cased
RECURSIVE available_loop_case_sensitive(_, _, _, _, _)
available_loop_case_sensitive(n, current, blocked, preferred, available) ==
    IF n <= 0 THEN available
    ELSE LET next == add_days(current, 1)
         IN  available_loop_case_sensitive(n - 1, next, blocked, preferred,
                 IF datetime_in(next, blocked) THEN available
                 ELSE IF truthy(preferred)
                         /\ lower(strftime_A(next)) # preferred.val
                      THEN available
                      ELSE Append(available, AvailabilitySlot(next)))

\* the loop with each found slot put in front of the ones found before
RECURSIVE available_loop_newest_first(_, _, _, _, _)
available_loop_newest_first(n, current, blocked, preferred, available) ==
    IF n <= 0 THEN available
    ELSE LET next == add_days(current, 1)
         IN  available_loop_newest_first(n - 1, next, blocked, preferred,
                 IF datetime_in(next, blocked) THEN available
                 ELSE IF truthy(preferred)
                         /\ lower(strftime_A(next)) # lower(preferred.val)
                      THEN available
                      ELSE <<AvailabilitySlot(next)>> \o available)

\* one pass of `for _ in range(days_ahead)` and the passes after it
RECURSIVE available_loop(_, _, _, _, _)
available_loop(n, current, blocked, preferred, available) ==
    IF n <= 0 THEN available
    ELSE LET next == add_days(current, 1)
         IN  available_loop(n - 1, next, blocked, preferred,
                 IF datetime_in(next, blocked) THEN available
                 ELSE IF truthy(preferred)
                         /\ lower(strftime_A(next)) # lower(preferred.val)
                      THEN available
                      ELSE Append(available, AvailabilitySlot(next)))

\* find_available_dates whose first candidate is the day of start_date
find_available_dates_from_start(evs, start, days, preferred) ==
    available_loop(days, add_days(midnight(start), -1), blocked_dates(evs), preferred, <<>>)

\* find_available_dates that stops one day before the end of the window
find_available_dates_one_short(evs, start, days, preferred) ==
    available_loop(days - 1, midnight(start), blocked_dates(evs), preferred, <<>>)

\* find_available_dates that searches |days_ahead| days
find_available_dates_abs(evs, start, days, preferred) ==
    available_loop(IF days < 0 THEN -days ELSE days, midnight(start),
                   blocked_dates(evs), preferred, <<>>)

find_available_dates(evs, start, days, preferred) ==
    available_loop(days, midnight(start), blocked_dates(evs), preferred, <<>>)

-----------------------------------------------------------------------------
(* flumphbot.bot.polls *)

\* d.replace(hour=h, minute=m)
replace(d, h, m) == [d EXCEPT !.hour = h, !.minute = m]

\* d + timedelta(hours=n): the wall clock moves, the tzinfo is kept
add_hours(d, n) ==
    LET total == d.hour + n
    IN  [d EXCEPT !.ord = @ + (total \div 24), !.hour = total % 24]

\* the defaults of create_dnd_event's parameters
DEFAULT_TITLE == <<"D", "&", "D", " ", "S", "e", "s", "s", "i", "o", "n">>
DEFAULT_DURATION_HOURS == 4
DEFAULT_DESCRIPTION ==
    <<"D", "&", "D", " ", "s", "e", "s", "s", "i", "o", "n", " ", "s", "c", "h", "e", "d", "u", "l", "e", "d", " ", "v", "i", "a", " ", "F", "l", "u", "m", "p", "h", "B", "o", "t">>

\* a parameter the caller left out takes its default
param(x, default) == IF x.isNone THEN default ELSE x.val

\* create_dnd_event that moves every date of hour 0 to the evening
create_dnd_event_any_minute(date, title, duration_hours, description) ==
    LET start == IF date.hour = 0 THEN replace(date, 18, 0) ELSE date
    IN  CalendarEvent("", title, start, add_hours(start, duration_hours), BUSY,
                      Some(or_else(description, DEFAULT_DESCRIPTION)), FALSE)

create_dnd_event(date, title, duration_hours, description) ==
    LET start == IF date.hour = 0 /\ date.minute = 0 THEN replace(date, 18, 0) ELSE date
    IN  CalendarEvent("", title, start, add_hours(start, duration_hours), BUSY,
                      Some(or_else(description, DEFAULT_DESCRIPTION)), FALSE)

-----------------------------------------------------------------------------
(* flumphbot.calendar.models: the dicts of the Google Calendar API *)

\* the calendar arithmetic of datetime.date: the days of a month, the days
\* before a month and a year, date.toordinal() and date.fromordinal()
is_leap(y) == y % 4 = 0 /\ (y % 100 # 0 \/ y % 400 = 0)

days_in_month(y, m) ==
    IF m = 2 THEN (IF is_leap(y) THEN 29 ELSE 28)
    ELSE IF m \in {4, 6, 9, 11} THEN 30 ELSE 31

RECURSIVE days_before_month(_, _)
days_before_month(y, m) ==
    IF m = 1 THEN 0 ELSE days_before_month(y, m - 1) + days_in_month(y, m - 1)

days_before_year(y) ==
    LET p == y - 1 IN p * 365 + p \div 4 - p \div 100 + p \div 400

ymd2ord(y, m, d) == days_before_year(y) + days_before_month(y, m) + d

ord2ymd(n) ==
    LET y == CHOOSE c \in (n \div 366)..(n \div 365 + 1) :
                 days_before_year(c) < n /\ n <= days_before_year(c + 1)
        k == n - days_before_year(y)
        m == CHOOSE c \in 1..12 :
                 days_before_month(y, c) < k
                     /\ k <= days_before_month(y, c) + days_in_month(y, c)
    IN  [year |-> y, month |-> m, day |-> k - days_before_month(y, m)]

\* "%0*d" % (width, n)
DigitChars == <<"0", "1", "2", "3", "4", "5", "6", "7", "8", "9">>
zero_padded(n, width) ==
    [i \in 1..width |-> DigitChars[((n \div (10 ^ (width - i))) % 10) + 1]]

\* int(s) for a string of decimal digits
DigitValue ==
    ("0" :> 0) @@ ("1" :> 1) @@ ("2" :> 2) @@ ("3" :> 3) @@ ("4" :> 4) @@ ("5" :> 5)
        @@ ("6" :> 6) @@ ("7" :> 7) @@ ("8" :> 8) @@ ("9" :> 9)
is_decimal(s) == s # <<>> /\ \A i \in 1..Len(s) : s[i] \in Digits
RECURSIVE int(_)
int(s) == IF s = <<>> THEN 0 ELSE int(SubSeq(s, 1, Len(s) - 1)) * 10 + DigitValue[s[Len(s)]]

\* d.date().isoformat(): YYYY-MM-DD
date_isoformat(d) ==
    LET c == ord2ymd(d.ord)
    IN  zero_padded(c.year, 4) \o <<"-">> \o zero_padded(c.month, 2) \o <<"-">>
            \o zero_padded(c.day, 2)

\* the UTC offset isoformat() ends with when a tzinfo is attached: +HH:MM
offset_isoformat(d) ==
    IF ~d.aware THEN <<>>
    ELSE (IF d.off < 0 THEN <<"-">> ELSE <<"+">>)
             \o zero_padded(IF d.off < 0 THEN -d.off ELSE d.off, 2) \o <<":", "0", "0">>

\* d.isoformat(): YYYY-MM-DDTHH:MM:SS[+HH:MM]; the datetimes of the model
\* have no seconds and no microseconds
isoformat(d) ==
    date_isoformat(d) \o <<"T">> \o zero_padded(d.hour, 2) \o <<":">>
        \o zero_padded(d.minute, 2) \o <<":", "0", "0">> \o offset_isoformat(d)

\* s.replace("Z", "+00:00")
RECURSIVE replace_Z(_)
replace_Z(s) ==
    IF s = <<>> THEN <<>>
    ELSE (IF Head(s) = "Z" THEN <<"+", "0", "0", ":", "0", "0">> ELSE <<Head(s)>>)
             \o replace_Z(Tail(s))

\* what a call gives that raises
Raised(exception) == [raised |-> exception]
has_raised(x) == "raised" \in DOMAIN x

\* the date at the head of an ISO string, or None
parsed_date(s) ==
    IF Len(s) >= 10 /\ s[5] = "-" /\ s[8] = "-"
           /\ is_decimal(SubSeq(s, 1, 4)) /\ is_decimal(SubSeq(s, 6, 7))
           /\ is_decimal(SubSeq(s, 9, 10))
    THEN LET y == int(SubSeq(s, 1, 4))
             m == int(SubSeq(s, 6, 7))
             d == int(SubSeq(s, 9, 10))
         IN  IF y >= 1 /\ m \in 1..12 /\ d >= 1 /\ d <= days_in_month(y, m)
             THEN Some(ymd2ord(y, m, d)) ELSE None
    ELSE None

\* the time HH:MM:SS of an ISO string, or None
parsed_time(s) ==
    IF Len(s) = 8 /\ s[3] = ":" /\ s[6] = ":"
           /\ is_decimal(SubSeq(s, 1, 2)) /\ is_decimal(SubSeq(s, 4, 5))
           /\ is_decimal(SubSeq(s, 7, 8))
           /\ int(SubSeq(s, 1, 2)) < 24 /\ int(SubSeq(s, 4, 5)) < 60
           /\ int(SubSeq(s, 7, 8)) = 0
    THEN Some([hour |-> int(SubSeq(s, 1, 2)), minute |-> int(SubSeq(s, 4, 5))])
    ELSE None

\* the UTC offset [+-]HH:00 of an ISO string in hours, or None
parsed_offset(s) ==
    IF Len(s) = 6 /\ s[1] \in {"+", "-"} /\ s[4] = ":"
           /\ is_decimal(SubSeq(s, 2, 3)) /\ SubSeq(s, 5, 6) = <<"0", "0">>
           /\ int(SubSeq(s, 2, 3)) < 24
    THEN Some(IF s[1] = "-" THEN -int(SubSeq(s, 2, 3)) ELSE int(SubSeq(s, 2, 3)))
    ELSE None

\* datetime.fromisoformat(s) for the strings isoformat() writes: a date, a
\* date and a time, a date and a time and an offset; ValueError for any
\* other string. A date alone is its midnight, without tzinfo.
fromisoformat(s) ==
    LET day == parsed_date(s)
        time == IF Len(s) >= 19 THEN parsed_time(SubSeq(s, 12, 19)) ELSE None
        offset == IF Len(s) = 25 THEN parsed_offset(SubSeq(s, 20, 25)) ELSE None
    IN  IF day.isNone THEN Raised("ValueError")
        ELSE IF Len(s) = 10 THEN datetime(day.val, 0, FALSE, 0)
        ELSE IF Len(s) \notin {19, 25} \/ time.isNone THEN Raised("ValueError")
        ELSE IF Len(s) = 19
             THEN replace(datetime(day.val, 0, FALSE, 0), time.val.hour, time.val.minute)
        ELSE IF offset.isNone THEN Raised("ValueError")
        ELSE replace(datetime(day.val, 0, TRUE, offset.val), time.val.hour,
                     time.val.minute)

\* a dict of the Google Calendar API: a key the dict does not have is None
NoDate == [date |-> None, dateTime |-> None]
GoogleEvent(i, s, st, en, transparency, creator, d) ==
    [id |-> i, summary |-> s, start |-> st, end |-> en, transparency |-> transparency,
     creator |-> creator, description |-> d]

\* d.get(key, default)
get(x, default) == IF x.isNone THEN default ELSE x.val

\* from_google_event that takes every transparency but "opaque" for Free
from_google_event_opaque_only(e) ==
    LET start_data == get(e.start, NoDate)
        end_data == get(e.end, NoDate)
        all_day == ~start_data.date.isNone
        start == IF all_day THEN fromisoformat(start_data.date.val)
                 ELSE fromisoformat(replace_Z(get(start_data.dateTime, <<>>)))
        end == IF all_day THEN fromisoformat(end_data.date.val)
               ELSE fromisoformat(replace_Z(get(end_data.dateTime, <<>>)))
    IN  IF has_raised(start) THEN start
        ELSE IF has_raised(end) THEN end
        ELSE [id |-> get(e.id, ""), summary |-> get(e.summary, <<>>), start |-> start,
              end |-> end,
              status |-> IF get(e.transparency, "opaque") = "opaque" THEN BUSY ELSE FREE,
              creator_email |-> get(e.creator, [email |-> None]).email,
              description |-> e.description, all_day |-> all_day]

\* CalendarEvent.from_google_event
from_google_event(e) ==
    LET start_data == get(e.start, NoDate)
        end_data == get(e.end, NoDate)
        all_day == ~start_data.date.isNone
        transparency == get(e.transparency, "opaque")
        start == IF all_day THEN fromisoformat(start_data.date.val)
                 ELSE fromisoformat(replace_Z(get(start_data.dateTime, <<>>)))
        end == IF ~all_day THEN fromisoformat(replace_Z(get(end_data.dateTime, <<>>)))
               ELSE IF end_data.date.isNone THEN Raised("KeyError")
               ELSE fromisoformat(end_data.date.val)
    IN  IF has_raised(start) THEN start
        ELSE IF has_raised(end) THEN end
        ELSE [id |-> get(e.id, ""), summary |-> get(e.summary, <<>>), start |-> start,
              end |-> end,
              status |-> IF transparency = "transparent" THEN FREE ELSE BUSY,
              creator_email |-> get(e.creator, [email |-> None]).email,
              description |-> e.description, all_day |-> all_day]

\* CalendarEvent.to_google_event that writes the start and the end of every
\* event as a dateTime
to_google_event_timed(e) ==
    GoogleEvent(None, Some(e.summary), Some([date |-> None, dateTime |-> Some(isoformat(e.start))]),
                Some([date |-> None, dateTime |-> Some(isoformat(e.end))]),
                Some(e.status), None,
                IF truthy(e.description) THEN e.description ELSE None)

\* CalendarEvent.to_google_event
to_google_event(e) ==
    GoogleEvent(None, Some(e.summary),
                Some(IF e.all_day
                     THEN [date |-> Some(date_isoformat(e.start)), dateTime |-> None]
                     ELSE [date |-> None, dateTime |-> Some(isoformat(e.start))]),
                Some(IF e.all_day
                     THEN [date |-> Some(date_isoformat(e.end)), dateTime |-> None]
                     ELSE [date |-> None, dateTime |-> Some(isoformat(e.end))]),
                Some(e.status), None,
                IF truthy(e.description) THEN e.description ELSE None)

-----------------------------------------------------------------------------
(* flumphbot.config, flumphbot.storage and flumphbot.bot.client *)

Categories == {"dnd", "away", "personal"}

\* Config.dnd_keywords and Config.away_keywords: read by the bot, declared
\* nowhere in config.py; the compiled-in lists the keyword commands fall back
\* to
CONFIG_DND_KEYWORDS == DEFAULT_DND_KEYWORDS
CONFIG_AWAY_KEYWORDS == DEFAULT_AWAY_KEYWORDS

\* Config.personal_keywords
CONFIG_PERSONAL_KEYWORDS ==
    << <<"d", "o", "c", "t", "o", "r">>,
       <<"d", "e", "n", "t", "i", "s", "t">>,
       <<"a", "p", "p", "o", "i", "n", "t", "m", "e", "n", "t">>,
       <<"i", "n", "t", "e", "r", "v", "i", "e", "w">>,
       <<"t", "h", "e", "r", "a", "p", "y">>,
       <<"m", "e", "d", "i", "c", "a", "l">>,
       <<"c", "h", "e", "c", "k", "u", "p">>,
       <<"p", "r", "e", "s", "c", "r", "i", "p", "t", "i", "o", "n">>,
       <<"c", "o", "u", "r", "t">>,
       <<"l", "a", "w", "y", "e", "r">>,
       <<"a", "c", "c", "o", "u", "n", "t", "a", "n", "t">>,
       <<"m", "e", "e", "t", "i", "n", "g">>,
       <<"c", "a", "l", "l", " ", "w", "i", "t", "h">>,
       <<"d", "a", "t", "e">>,
       <<"w", "e", "d", "d", "i", "n", "g">> >>

\* the lists that exist once the bot is constructed: the class attributes of
\* EventAnalyzer and the lists of the Config object
DefaultRef == [dnd |-> 1, away |-> 2, personal |-> 3]
ConfigRef == [dnd |-> 4, away |-> 5, personal |-> 6]
InitialHeap ==
    <<DEFAULT_DND_KEYWORDS, DEFAULT_AWAY_KEYWORDS, DEFAULT_PERSONAL_KEYWORDS,
      CONFIG_DND_KEYWORDS, CONFIG_AWAY_KEYWORDS, CONFIG_PERSONAL_KEYWORDS>>

\* a new list object holding v: the heap with it, and its name
new_list(h, v) == [heap |-> Append(h, v), ref |-> Len(h) + 1]

\* storage.get_keywords(category): the stored list, or None
get_keywords(st, category) == st[category]

\* storage.set_keywords(category, keywords)
set_keywords(st, category, keywords) == [st EXCEPT ![category] = Some(keywords)]

\* `await storage.get_keywords(c) or config.<c>_keywords`: a list read from
\* storage is a new object, the list of the Config object is itself
keywords_or_config(h, st, category) ==
    IF truthy(get_keywords(st, category))
    THEN new_list(h, get_keywords(st, category).val)
    ELSE [heap |-> h, ref |-> ConfigRef[category]]

\* the fetch of the keyword commands without list(): the Config list itself
keywords_or_config_list(h, st, category) == keywords_or_config(h, st, category)

\* `await storage.get_keywords(c) or list(config.<c>_keywords)`: list() copies
keywords_or_copy(h, st, category) ==
    IF truthy(get_keywords(st, category))
    THEN new_list(h, get_keywords(st, category).val)
    ELSE new_list(h, h[ConfigRef[category]])

\* EventAnalyzer(dnd_keywords=d, away_keywords=a, personal_keywords=p) for
\* lists d, a, p: each field names the list given or, if that is empty, the
\* class attribute
EventAnalyzer(h, d, a, p) ==
    [dnd_keywords |-> IF h[d] # <<>> THEN d ELSE DefaultRef.dnd,
     away_keywords |-> IF h[a] # <<>> THEN a ELSE DefaultRef.away,
     personal_keywords |-> IF h[p] # <<>> THEN p ELSE DefaultRef.personal]

\* the keyword lists an analyzer holds, by value
keyword_lists(h, a) ==
    [dnd_keywords |-> h[a.dnd_keywords], away_keywords |-> h[a.away_keywords],
     personal_keywords |-> h[a.personal_keywords]]

\* self.get_category(e) for an analyzer whose lists are those of self
get_category_of(self, e) ==
    IF any_keyword_in(self.dnd_keywords, lower(e.summary)) THEN DND
    ELSE IF any_keyword_in(self.away_keywords, lower(e.summary)) THEN AWAY
    ELSE IF detect_loop(self.personal_keywords,
                        lower(e.summary \o <<" ">> \o or_else(e.description, <<>>)),
                        <<>>) # <<>>
         THEN PERSONAL
    ELSE CATEGORY_OTHER

\* any(kw.lower() == keyword.lower() for kw in keywords)
has_keyword(keywords, keyword) ==
    \E i \in DOMAIN keywords : lower(keywords[i]) = lower(keyword)

\* [kw for kw in keywords if kw.lower() != keyword.lower()]
RECURSIVE without_keyword(_, _)
without_keyword(keywords, keyword) ==
    IF keywords = <<>> THEN <<>>
    ELSE (IF lower(Head(keywords)) # lower(keyword) THEN <<Head(keywords)>> ELSE <<>>)
         \o without_keyword(Tail(keywords), keyword)

-----------------------------------------------------------------------------
(* flumphbot.storage.sqlite *)

\* the tables of a database just initialized
EmptyStorage == [polls |-> <<>>, poll_options |-> <<>>, settings |-> {}, user_mappings |-> <<>>]

PollRecord(id, message_id, channel_id, created_at, closes_at) ==
    [id |-> id, message_id |-> message_id, channel_id |-> channel_id,
     created_at |-> created_at, closes_at |-> closes_at, closed |-> FALSE,
     winning_date |-> None, created_event_id |-> None]

PollOption(poll_id, date) == [poll_id |-> poll_id, date |-> date, vote_count |-> 0]

\* the order SQLite keeps TEXT in: the characters of an ISO string by their
\* code, a string before every string it starts
CharCode ==
    ("+" :> 43) @@ ("-" :> 45) @@ ("0" :> 48) @@ ("1" :> 49) @@ ("2" :> 50) @@ ("3" :> 51)
        @@ ("4" :> 52) @@ ("5" :> 53) @@ ("6" :> 54) @@ ("7" :> 55) @@ ("8" :> 56)
        @@ ("9" :> 57) @@ (":" :> 58) @@ ("T" :> 84)
text_less(a, b) ==
    \E k \in 1..Len(b) :
        /\ \A h \in 1..(k - 1) : h <= Len(a) /\ a[h] = b[h]
        /\ (k > Len(a) \/ CharCode[a[k]] < CharCode[b[k]])

\* the row create_poll and update_poll write for a poll
poll_row(poll) ==
    [id |-> poll.id, message_id |-> poll.message_id, channel_id |-> poll.channel_id,
     created_at |-> isoformat(poll.created_at), closes_at |-> isoformat(poll.closes_at),
     closed |-> IF poll.closed THEN 1 ELSE 0,
     winning_date |-> IF poll.winning_date.isNone THEN None
                      ELSE Some(isoformat(poll.winning_date.val)),
     created_event_id |-> poll.created_event_id]

\* SQLiteStorage._row_to_poll
row_to_poll(row) ==
    [id |-> row.id, message_id |-> row.message_id, channel_id |-> row.channel_id,
     created_at |-> fromisoformat(row.created_at), closes_at |-> fromisoformat(row.closes_at),
     closed |-> row.closed # 0,
     winning_date |-> IF row.winning_date.isNone THEN None
                      ELSE Some(fromisoformat(row.winning_date.val)),
     created_event_id |-> row.created_event_id]

\* SQLiteStorage.create_poll
create_poll(st, poll, options) ==
    [st EXCEPT !.polls = Append(@, poll_row(poll)),
               !.poll_options = @ \o [i \in 1..Len(options) |->
                                         [poll_id |-> options[i].poll_id,
                                          date |-> isoformat(options[i].date),
                                          vote_count |-> options[i].vote_count]]]

\* the rows of the polls that are not closed
active_rows(st) == {i \in 1..Len(st.polls) : st.polls[i].closed = 0}

\* SQLiteStorage.get_active_poll that answers with the oldest open poll
get_oldest_active_poll(st) ==
    IF active_rows(st) = {} THEN {None}
    ELSE {Some(row_to_poll(st.polls[i])) : i \in {i \in active_rows(st) : \A j \in active_rows(st) : i <= j}}

\* SQLiteStorage.get_active_poll: what the call may answer. WHERE closed = 0
\* ORDER BY created_at DESC LIMIT 1 takes a row created last; SQLite does
\* not say which when two were created at the same time.
get_active_poll(st) ==
    IF active_rows(st) = {} THEN {None}
    ELSE {Some(row_to_poll(st.polls[i])) :
             i \in {i \in active_rows(st) :
                       \A j \in active_rows(st) :
                           ~text_less(st.polls[i].created_at, st.polls[j].created_at)}}

\* ORDER BY date: the rows in the order of their date text, rows of one
\* date in the order they are stored in
date_rank(rows, i) ==
    Cardinality({j \in 1..Len(rows) :
                    \/ text_less(rows[j].date, rows[i].date)
                    \/ (rows[j].date = rows[i].date /\ j <= i)})
order_by_date(rows) ==
    [k \in 1..Len(rows) |-> rows[CHOOSE i \in 1..Len(rows) : date_rank(rows, i) = k]]

\* WHERE poll_id = ?
RECURSIVE SelectRows(_, _)
SelectRows(rows, poll_id) ==
    IF rows = <<>> THEN <<>>
    ELSE (IF Head(rows).poll_id = poll_id THEN <<Head(rows)>> ELSE <<>>)
             \o SelectRows(Tail(rows), poll_id)

\* SQLiteStorage.get_poll_options
get_poll_options(st, poll_id) ==
    LET fetchall(rows) ==
            [i \in 1..Len(rows) |->
                [poll_id |-> rows[i].poll_id, date |-> fromisoformat(rows[i].date),
                 vote_count |-> rows[i].vote_count]]
    IN  by_value(fetchall, order_by_date(SelectRows(st.poll_options, poll_id)))

\* SQLiteStorage.update_poll
update_poll(st, poll) ==
    [st EXCEPT !.polls =
        [i \in 1..Len(@) |->
            IF @[i].id = poll.id
            THEN [@[i] EXCEPT !.closed = poll_row(poll).closed,
                              !.winning_date = poll_row(poll).winning_date,
                              !.created_event_id = poll.created_event_id]
            ELSE @[i]]]

\* SQLiteStorage.get_setting
get_setting(st, key) ==
    IF \E s \in st.settings : s.key = key
    THEN Some((CHOOSE s \in st.settings : s.key = key).value)
    ELSE None

\* SQLiteStorage.set_setting: INSERT OR REPLACE
set_setting(st, key, value) ==
    [st EXCEPT !.settings = {s \in @ : s.key # key} \cup {[key |-> key, value |-> value]}]

\* SQLiteStorage.get_all_user_mappings
get_all_user_mappings(st) == st.user_mappings

-----------------------------------------------------------------------------
(* flumphbot.bot.polls: the polls *)

MAX_POLL_OPTIONS == 10

\* datetime.utcnow() when the clock shows t
utcnow(t) ==
    [ord |-> t \div 1440, hour |-> (t % 1440) \div 60, minute |-> t % 60,
     aware |-> FALSE, off |-> 0]

\* available_slots[:MAX_POLL_OPTIONS]
slots_to_use(available_slots) ==
    SubSeq(available_slots, 1,
           IF Len(available_slots) < MAX_POLL_OPTIONS THEN Len(available_slots)
           ELSE MAX_POLL_OPTIONS)

\* discord.Poll: one answer for each slot, nobody has voted (the text of an
\* answer is left out)
Poll(slots) == [answers |-> [i \in 1..Len(slots) |-> [vote_count |-> 0]]]

\* sum(answer.vote_count for answer in answers)
RECURSIVE votes_cast(_)
votes_cast(answers) ==
    IF answers = <<>> THEN 0 ELSE Head(answers).vote_count + votes_cast(Tail(answers))

\* the votes on all the polls of the channel
RECURSIVE all_votes_cast(_)
all_votes_cast(messages) ==
    IF messages = <<>> THEN 0
    ELSE (IF Head(messages).poll.isNone THEN 0
          ELSE votes_cast(Head(messages).poll.val.answers))
             + all_votes_cast(Tail(messages))

\* channel.send(poll=poll): Discord numbers the message
send(d, poll) == [d EXCEPT !.messages = Append(@, [id |-> Len(@) + 1, poll |-> poll])]

\* channel.fetch_message(message_id): the message, or NotFound
fetch_message(d, message_id) ==
    IF message_id \in 1..Len(d.messages) THEN d.messages[message_id]
    ELSE Raised("NotFound")

\* the channel the bot posts in
CHANNEL_ID == 1

\* create_scheduling_poll after the message is sent: the poll record and the
\* poll options are stored; uuid4() is a number no poll has
store_poll(st, message, available_slots, duration_hours, t) ==
    LET poll_id == Len(st.polls) + 1
        slots == slots_to_use(available_slots)
    IN  create_poll(st,
                    PollRecord(poll_id, message.id, CHANNEL_ID, utcnow(t),
                               add_hours(utcnow(t), duration_hours)),
                    [i \in 1..Len(slots) |-> PollOption(poll_id, slots[i].date)])

\* create_scheduling_poll that posts a poll of no answer for no slot
create_scheduling_poll_unguarded(st, d, available_slots, duration_hours, t) ==
    LET sent == send(d, Some(Poll(slots_to_use(available_slots))))
        message == sent.messages[Len(sent.messages)]
    IN  [ret |-> Some(message), discord |-> sent,
         storage |-> store_poll(st, message, available_slots, duration_hours, t)]

\* PollManager.create_scheduling_poll: what it returns and what it leaves in
\* the channel and in storage
create_scheduling_poll(st, d, available_slots, duration_hours, t) ==
    IF available_slots = <<>>
    THEN [ret |-> None, discord |-> d, storage |-> st]
    ELSE LET sent == send(d, Some(Poll(slots_to_use(available_slots))))
             message == sent.messages[Len(sent.messages)]
         IN  [ret |-> Some(message), discord |-> sent,
              storage |-> store_poll(st, message, available_slots, duration_hours, t)]

\* the loop of close_poll_and_get_winner that lets a later answer win a tie
RECURSIVE winner_loop_last(_, _, _, _, _)
winner_loop_last(answers, options, i, max_votes, winning_date) ==
    IF i > Len(answers) THEN [max_votes |-> max_votes, winning_date |-> winning_date]
    ELSE IF i <= Len(options) /\ answers[i].vote_count >= max_votes
              /\ answers[i].vote_count > 0
         THEN winner_loop_last(answers, options, i + 1, answers[i].vote_count,
                               Some(options[i].date))
    ELSE winner_loop_last(answers, options, i + 1, max_votes, winning_date)

\* close_poll_and_get_winner: for i, answer in enumerate(message.poll.answers)
RECURSIVE winner_loop(_, _, _, _, _)
winner_loop(answers, options, i, max_votes, winning_date) ==
    IF i > Len(answers) THEN [max_votes |-> max_votes, winning_date |-> winning_date]
    ELSE IF i <= Len(options) /\ answers[i].vote_count > max_votes
         THEN winner_loop(answers, options, i + 1, answers[i].vote_count,
                          Some(options[i].date))
    ELSE winner_loop(answers, options, i + 1, max_votes, winning_date)

\* PollManager.close_poll_and_get_winner: what it returns, the poll record
\* it was given afterwards, and storage afterwards
close_poll_and_get_winner(st, poll_record, message) ==
    IF message.poll.isNone
    THEN [ret |-> None, poll_record |-> poll_record, storage |-> st]
    ELSE LET loop(options) == winner_loop(message.poll.val.answers, options, 1, 0, None)
             closed(won) == [poll_record EXCEPT !.closed = TRUE,
                                                !.winning_date = won.winning_date]
             after_loop(won) ==
                 IF ~won.winning_date.isNone /\ won.max_votes > 0
                 THEN [ret |-> won.winning_date, poll_record |-> closed(won),
                       storage |-> update_poll(st, closed(won))]
                 ELSE [ret |-> won.winning_date, poll_record |-> poll_record,
                       storage |-> st]
         IN  by_value(after_loop, by_value(loop, get_poll_options(st, poll_record.id)))

-----------------------------------------------------------------------------
(* flumphbot.calendar.google_client *)

\* events().list(timeMin, timeMax): the API serves the events that end after
\* timeMin and start before timeMax; the bot's naive datetimes are sent as UTC
in_range(e, time_min, time_max) ==
    /\ utc_minutes(e.end) > utc_minutes(time_min)
    /\ utc_minutes(e.start) < utc_minutes(time_max)

\* GoogleCalendarClient.get_events(time_min, time_max)
RECURSIVE get_events(_, _, _)
get_events(items, time_min, time_max) ==
    IF items = <<>> THEN <<>>
    ELSE (IF in_range(from_google_event(Head(items)), time_min, time_max)
          THEN <<from_google_event(Head(items))>> ELSE <<>>)
             \o get_events(Tail(items), time_min, time_max)

\* GoogleCalendarClient.update_event_status that patches every event
update_every_event_status(g, event_id, status) ==
    [g EXCEPT !.items = [i \in 1..Len(@) |-> [@[i] EXCEPT !.transparency = Some(status)]],
              !.updates = Append(@, [event_id |-> event_id, status |-> status])]

\* GoogleCalendarClient.update_event_status: the event is read, its
\* transparency is set and it is patched
update_event_status(g, event_id, status) ==
    [g EXCEPT !.items = [i \in 1..Len(@) |->
                            IF @[i].id = Some(event_id)
                            THEN [@[i] EXCEPT !.transparency = Some(status)]
                            ELSE @[i]],
              !.updates = Append(@, [event_id |-> event_id, status |-> status])]

\* GoogleCalendarClient.create_event: the calendar gives the event an id
create_event(g, e) ==
    [g EXCEPT !.items = Append(@, [to_google_event(e) EXCEPT
                                       !.id = Some("c" \o ToString(Len(g.items) + 1))])]

\* update_event_status when the API answers with an error: the call is
\* made, nothing is patched
update_event_status_fails(g, event_id, status) ==
    [g EXCEPT !.updates = Append(@, [event_id |-> event_id, status |-> status])]

-----------------------------------------------------------------------------
(* flumphbot.scheduler.tasks *)

\* ScheduledTasks._find_user_by_email
RECURSIVE find_user_by_email(_, _)
find_user_by_email(mappings, email) ==
    IF mappings = <<>> THEN None
    ELSE IF lower(Head(mappings).calendar_email) = lower(email) THEN Some(Head(mappings))
    ELSE find_user_by_email(Tail(mappings), email)

\* the channel's history: its last MaxNotices notifications
MaxNotices == 3
last(s, n) == IF Len(s) <= n THEN s ELSE SubSeq(s, Len(s) - n + 1, Len(s))

\* bot.send_notification(message): the message is posted in the channel
send_notification(d, kind, about) ==
    [d EXCEPT !.notices = last(Append(@, [kind |-> kind, about |-> about]), MaxNotices)]

\* bot.send_dm(user_id, message)
send_dm(d, discord_id, kind, about) ==
    [d EXCEPT !.dms = Append(@, [to |-> discord_id, kind |-> kind, about |-> about])]

\* sync_calendar_hygiene: the notification about an event that was fixed
fix_notification(d, mappings, e) ==
    IF get_category(e) = AWAY
    THEN send_notification(d, "away_fixed", e.id)
    ELSE send_notification(d, "fixed", e.id)

\* sync_calendar_hygiene: the alerts of the personal events whose creator
\* has a user mapping
RECURSIVE alert_personal_events(_, _, _)
alert_personal_events(d, mappings, personal) ==
    IF personal = <<>> THEN d
    ELSE LET result == Head(personal)
             mapping == IF result.event.creator_email.isNone THEN None
                        ELSE find_user_by_email(mappings, result.event.creator_email.val)
         IN  alert_personal_events(
                 IF mapping.isNone THEN d
                 ELSE send_dm(d, mapping.val.discord_id, "personal", result.event.id),
                 mappings, Tail(personal))

\* send_session_reminders: `not reminder_hours or int(reminder_hours) == 0`
K_ReminderHours == <<"reminder_hours">>
reminders_disabled(reminder_hours) ==
    ~truthy(reminder_hours) \/ int(reminder_hours.val) = 0

\* f"reminder_sent_{session.id}" and the value stored under it
reminder_key(session_id) == <<"reminder_sent_", session_id>>
V_True == <<"t", "r", "u", "e">>

\* the events of the reminder window that are D&D sessions
RECURSIVE dnd_sessions_of(_)
dnd_sessions_of(evs) ==
    IF evs = <<>> THEN <<>>
    ELSE (IF is_dnd_session(Head(evs)) THEN <<Head(evs)>> ELSE <<>>)
             \o dnd_sessions_of(Tail(evs))

\* the window of send_session_reminders: from hours - 0.5 to hours + 0.5
\* hours after the clock's t
sessions_to_remind(g, hours, t) ==
    dnd_sessions_of(get_events(g.items, utcnow(t + hours * 60 - 30),
                               utcnow(t + hours * 60 + 30)))

\* `for mapping in mappings`: a DM to each user that can be reached
RECURSIVE remind_users(_, _, _, _)
remind_users(d, mappings, reachable, session) ==
    IF mappings = <<>> THEN d
    ELSE remind_users(IF Head(mappings).discord_id \in reachable
                      THEN send_dm(d, Head(mappings).discord_id, "reminder", session.id)
                      ELSE d,
                      Tail(mappings), reachable, session)

\* one turn of `for session in dnd_sessions` that sends without looking
\* for the reminder_sent flag
remind_session_again(st, d, mappings, reachable, session) ==
    [discord |-> remind_users(d, mappings, reachable, session),
     storage |-> set_setting(st, reminder_key(session.id), V_True)]

\* one turn of `for session in dnd_sessions`: what it leaves in the users'
\* DMs and in storage
remind_session(st, d, mappings, reachable, session) ==
    IF truthy(get_setting(st, reminder_key(session.id)))
    THEN [discord |-> d, storage |-> st]
    ELSE [discord |-> remind_users(d, mappings, reachable, session),
          storage |-> set_setting(st, reminder_key(session.id), V_True)]

-----------------------------------------------------------------------------
(* flumphbot.scheduler.runner *)

\* the keys of the settings table the schedule is kept under
K_ScheduleDay == <<"schedule_day">>
K_ScheduleHour == <<"schedule_hour">>
K_PollDurationDays == <<"poll_duration_days">>

\* SchedulerConfig: poll_day, poll_time and sync_interval_minutes
CONFIG_POLL_DAY == DayNames[1]
CONFIG_POLL_TIME == <<"0", "9", ":", "0", "0">>
CONFIG_SYNC_INTERVAL_MINUTES == 15

\* str(n) for n >= 0
RECURSIVE str(_)
str(n) == IF n < 10 THEN <<DigitChars[n + 1]>> ELSE str(n \div 10) \o <<DigitChars[(n % 10) + 1]>>

\* s.split(":")
RECURSIVE split(_)
split(s) ==
    IF \A i \in 1..Len(s) : s[i] # ":" THEN <<s>>
    ELSE LET at == CHOOSE i \in 1..Len(s) : s[i] = ":" /\ \A j \in 1..(i - 1) : s[j] # ":"
         IN  <<SubSeq(s, 1, at - 1)>> \o split(SubSeq(s, at + 1, Len(s)))

\* DAY_MAP and DAY_MAP.get(day, "mon")
CronDays == <<"mon", "tue", "wed", "thu", "fri", "sat", "sun">>
DAY_MAP == [name \in {lower(DayNames[i]) : i \in 1..7} |->
               CronDays[CHOOSE i \in 1..7 : lower(DayNames[i]) = name]]
DAY_MAP_get(day, default) == IF day \in DOMAIN DAY_MAP THEN DAY_MAP[day] ELSE default

CronTrigger(day_of_week, hour, minute) ==
    [kind |-> "cron", day_of_week |-> day_of_week, hour |-> hour, minute |-> minute]
IntervalTrigger(minutes) == [kind |-> "interval", minutes |-> minutes]

\* SchedulerRunner._add_core_jobs: the jobs by id, each with its trigger
add_core_jobs(day_of_week, hour, minute) ==
    [weekly_poll |-> CronTrigger(day_of_week, hour, minute),
     calendar_hygiene |-> IntervalTrigger(CONFIG_SYNC_INTERVAL_MINUTES),
     poll_completion |-> IntervalTrigger(5),
     vacation_confirmation |->
         CronTrigger(day_of_week, IF hour > 0 THEN hour - 1 ELSE 23, minute),
     session_reminders |-> IntervalTrigger(30),
     poll_warning |-> IntervalTrigger(30)]

\* SchedulerRunner._setup_jobs
setup_jobs ==
    add_core_jobs(DAY_MAP_get(lower(CONFIG_POLL_DAY), "mon"),
                  int(split(CONFIG_POLL_TIME)[1]), int(split(CONFIG_POLL_TIME)[2]))

\* SchedulerRunner.reload_schedule
reload_schedule(st) ==
    LET schedule_day == get_setting(st, K_ScheduleDay)
        schedule_hour == get_setting(st, K_ScheduleHour)
        day == IF truthy(schedule_day) THEN schedule_day.val ELSE CONFIG_POLL_DAY
        hour_str == IF truthy(schedule_hour) THEN schedule_hour.val
                    ELSE split(CONFIG_POLL_TIME)[1]
    IN  add_core_jobs(DAY_MAP_get(lower(day), "mon"), int(hour_str), 0)

\* the minute of the week a cron trigger fires at, Monday 00:00 being 0
fire_minute(trigger) ==
    ((CHOOSE i \in 1..7 : CronDays[i] = trigger.day_of_week) - 1) * 1440
        + trigger.hour * 60 + trigger.minute

-----------------------------------------------------------------------------
(* The inputs the operations are tried on *)

MaxEvents == 2        \* longest list[CalendarEvent] passed in
MaxDaysAhead == 5     \* largest days_ahead passed in
MaxCommands == 1      \* keyword commands handled in one run of the bot
FirstDay == 738888    \* toordinal() of the day the searches start on (2024-01-03)

T_Raid == <<"R", "a", "i", "d">>
T_RaidNight == <<"R", "a", "i", "d", " ", "n", "i", "g", "h", "t">>
T_DndSession == <<"D", "&", "D", " ", "S", "e", "s", "s", "i", "o", "n">>
T_Session42 == <<"S", "e", "s", "s", "i", "o", "n", " ", "4", "2", " ", "-", " ", "T", "h", "e", " ", "D", "r", "a", "g", "o", "n", "'", "s", " ", "L", "a", "i", "r">>
T_WeeklyDnd == <<"W", "e", "e", "k", "l", "y", " ", "D", "n", "D", " ", "g", "a", "m", "e">>
T_Vacation == <<"V", "a", "c", "a", "t", "i", "o", "n", " ", "i", "n", " ", "H", "a", "w", "a", "i", "i">>
T_Doctor == <<"D", "o", "c", "t", "o", "r", " ", "a", "p", "p", "o", "i", "n", "t", "m", "e", "n", "t">>
T_Team == <<"T", "e", "a", "m", " ", "m", "e", "e", "t", "i", "n", "g">>
T_Updated == <<"U", "p", "d", "a", "t", "e", "d", " ", "p", "l", "a", "n", "s">>
T_DoctorsVisit == <<"D", "o", "c", "t", "o", "r", "'", "s", " ", "v", "i", "s", "i", "t">>
T_DndTrip == <<"D", "&", "D", " ", "T", "r", "i", "p">>
T_CampaignBirthday == <<"C", "a", "m", "p", "a", "i", "g", "n", " ", "b", "i", "r", "t", "h", "d", "a", "y">>
T_DentistHoliday == <<"D", "e", "n", "t", "i", "s", "t", " ", "H", "o", "l", "i", "d", "a", "y">>
T_BusyDay == <<"B", "u", "s", "y", " ", "d", "a", "y">>
T_OutOfOffice == <<"O", "u", "t", " ", "o", "f", " ", "o", "f", "f", "i", "c", "e">>
T_Conference == <<"C", "o", "n", "f", "e", "r", "e", "n", "c", "e">>
T_Important == <<"I", "m", "p", "o", "r", "t", "a", "n", "t", " ", "E", "v", "e", "n", "t">>
T_CallWith == <<"C", "a", "l", "l", " ", "w", "i", "t", "h", " ", "B", "o", "b">>
D_Therapy == <<"T", "h", "i", "s", " ", "i", "s", " ", "a", " ", "t", "h", "e", "r", "a", "p", "y", " ", "s", "e", "s", "s", "i", "o", "n">>

Titles == {<<>>, T_DndSession, T_Session42, T_WeeklyDnd, T_Vacation, T_Doctor, T_Team,
           T_Updated, T_DoctorsVisit, T_DndTrip, T_CampaignBirthday, T_DentistHoliday,
           T_BusyDay, T_Important, T_CallWith}

Descriptions == {None, Some(<<>>), Some(D_Therapy)}

CUSTOM_DND_KEYWORDS == << <<"d", "n", "d">>, <<"G", "A", "M", "E">> >>
CUSTOM_AWAY_KEYWORDS == << <<"H", "a", "w", "a", "i", "i">>, <<"O", "F", "F", "I", "C", "E">> >>
CUSTOM_PERSONAL_KEYWORDS ==
    << <<"m", "e", "e", "t", "i", "n", "g">>,
       <<"c", "a", "l", "l", " ", "w", "i", "t", "h">>,
       <<"d", "a", "t", "e">>,
       <<"D", "o", "c", "t", "o", "r">> >>

DndArgs == {None, Some(<<>>), Some(CUSTOM_DND_KEYWORDS)}
AwayArgs == {None, Some(<<>>), Some(CUSTOM_AWAY_KEYWORDS)}
PersonalArgs == {None, Some(<<>>), Some(CUSTOM_PERSONAL_KEYWORDS)}

naive(o, h) == datetime(o, h, FALSE, 0)
aware(o, h, f) == datetime(o, h, TRUE, f)

\* events that differ in their text
TextEvents ==
    {CalendarEvent("1", s, naive(FirstDay, 18), naive(FirstDay, 22), BUSY, d, FALSE) :
        s \in Titles, d \in Descriptions}

\* events that differ in status, all_day and length
E_Dnd == CalendarEvent("1", T_DndSession, naive(FirstDay + 3, 18), naive(FirstDay + 3, 22),
                       BUSY, None, FALSE)
E_Vacation == CalendarEvent("2", T_Vacation, naive(FirstDay + 7, 0), naive(FirstDay + 14, 0),
                            BUSY, None, TRUE)
E_Doctor == CalendarEvent("3", T_Doctor, naive(FirstDay + 2, 9), naive(FirstDay + 2, 10),
                          BUSY, None, FALSE)
E_Team == CalendarEvent("4", T_Team, naive(FirstDay + 1, 9), naive(FirstDay + 1, 10),
                        FREE, None, FALSE)
E_ConfTwoDays == CalendarEvent("5", T_Conference, naive(FirstDay + 1, 0), naive(FirstDay + 3, 0),
                               BUSY, None, TRUE)
E_ConfOneDay == CalendarEvent("6", T_Conference, naive(FirstDay + 1, 0), naive(FirstDay + 2, 0),
                              FREE, None, TRUE)
E_ConfTimed == CalendarEvent("7", T_Conference, aware(FirstDay + 1, 9, 0), aware(FirstDay + 3, 17, 0),
                             BUSY, None, FALSE)
E_OutOfOffice == CalendarEvent("8", T_OutOfOffice, naive(FirstDay, 0), naive(FirstDay + 5, 0),
                               FREE, None, TRUE)
E_DndTrip == CalendarEvent("9", T_DndTrip, aware(FirstDay + 4, 18, 0), aware(FirstDay + 4, 22, 0),
                           FREE, None, FALSE)

\* events of a D&D and of an away title that hold a personal keyword
E_CampaignBirthday == CalendarEvent("10", T_CampaignBirthday, naive(FirstDay + 5, 18),
                                    naive(FirstDay + 5, 22), BUSY, None, FALSE)
E_DentistHoliday == CalendarEvent("11", T_DentistHoliday, naive(FirstDay + 6, 0),
                                  naive(FirstDay + 7, 0), FREE, Some(D_Therapy), TRUE)

StatusEvents == {E_Dnd, E_Vacation, E_Doctor, E_Team, E_ConfTwoDays, E_ConfOneDay,
                 E_ConfTimed, E_OutOfOffice, E_DndTrip}

\* the fixture of the tests
SampleEvents == <<E_Dnd, E_Vacation, E_Doctor, E_Team>>

\* events that differ in the day and the UTC offset of their start
TimeZones == {<<FALSE, 0>>, <<TRUE, 0>>, <<TRUE, 2>>}
TimedEvents ==
    {CalendarEvent("1", T_BusyDay, datetime(FirstDay + k, 19, z[1], z[2]),
                   datetime(FirstDay + k, 23, z[1], z[2]), BUSY, None, FALSE) :
        k \in {2, 3}, z \in TimeZones}

\* the dates, titles and durations create_dnd_event is tried on; None is a
\* parameter the caller leaves out
SessionDates ==
    {replace(datetime(FirstDay + 2, 0, z[1], z[2]), h, m) :
        h \in {0, 18, 23}, m \in {0, 30}, z \in TimeZones}
SessionTitles == {None, Some(T_Session42)}
SessionDurations == {None} \cup {Some(n) : n \in {-1, 0, 3, 6}}

\* what storage holds when the bot starts
NoOverrides == [dnd |-> None, away |-> None, personal |-> None]
StoredKeywords ==
    {NoOverrides,
     [dnd |-> Some(<< T_Raid >>), away |-> None,
      personal |-> Some(<<DEFAULT_PERSONAL_KEYWORDS[1], DEFAULT_PERSONAL_KEYWORDS[2]>>)],
     [dnd |-> None, away |-> None, personal |-> Some(<<DEFAULT_PERSONAL_KEYWORDS[2]>>)]}

\* the keywords the commands are given
CommandKeywords == {lower(T_Raid), DEFAULT_PERSONAL_KEYWORDS[2]}

\* the events the jobs classify
BotEvents ==
    {CalendarEvent("1", t, naive(FirstDay, 18), naive(FirstDay, 22), BUSY, None, FALSE) :
        t \in {T_RaidNight, T_Doctor, T_Team}}

StartDates == {naive(FirstDay, 13), aware(FirstDay, 13, 0)}

PreferredDays == {None, Some(<<>>), Some(DayNames[6]), Some(lower(DayNames[6])),
                  Some(SubSeq(DayNames[6], 1, 3)),
                  Some(<<"S", "A", "T", "U", "R", "D", "A", "Y">>), Some(DayNames[5])}

\* the lists of at most n elements of S
SeqsUpTo(S, n) == UNION {[1..k -> S] : k \in 0..n}

\* the event lists the availability search is tried on
ResolverEvents ==
    SeqsUpTo(TimedEvents, MaxEvents) \cup SeqsUpTo(StatusEvents, 1)
        \cup {SampleEvents, <<E_ConfTwoDays, E_Doctor>>}

\* the event lists the search for personal events is tried on
PersonalEvents ==
    SeqsUpTo({E_Doctor, E_Team, E_CampaignBirthday, E_DentistHoliday}, MaxEvents)
        \cup {SampleEvents}

\* the dicts from_google_event is tried on: the start and the end as a date,
\* as a dateTime with an offset, with Z and without either, with both keys,
\* with no key, with a date at the start only, and a dateTime that is no
\* ISO string; every transparency the API has and two it has not
LeapDay == FirstDay + 57
AsDate(d) == Some([date |-> Some(date_isoformat(d)), dateTime |-> None])
AsDateTime(s) == Some([date |-> None, dateTime |-> Some(s)])
WireTimes ==
    {<<AsDate(naive(FirstDay, 0)), AsDate(naive(FirstDay + 1, 0))>>,
     <<AsDate(naive(LeapDay, 0)), AsDate(naive(LeapDay + 1, 0))>>,
     <<AsDateTime(isoformat(aware(FirstDay, 18, -4))),
       AsDateTime(isoformat(aware(FirstDay, 22, -4)))>>,
     <<AsDateTime(isoformat(naive(FirstDay, 18)) \o <<"Z">>),
       AsDateTime(isoformat(naive(FirstDay, 22)) \o <<"Z">>)>>,
     <<AsDateTime(isoformat(naive(LeapDay, 23))), AsDateTime(isoformat(naive(LeapDay + 1, 1)))>>,
     <<Some([date |-> Some(date_isoformat(naive(FirstDay, 0))),
             dateTime |-> Some(isoformat(aware(FirstDay, 18, 2)))]),
       Some([date |-> Some(date_isoformat(naive(FirstDay + 1, 0))),
             dateTime |-> Some(isoformat(aware(FirstDay, 22, 2)))])>>,
     <<None, None>>,
     <<AsDate(naive(FirstDay, 0)), AsDateTime(isoformat(naive(FirstDay, 22)))>>,
     <<AsDateTime(<<"t", "o", "d", "a", "y">>), AsDateTime(<<"t", "o", "d", "a", "y">>)>>}
WireEvents ==
    {GoogleEvent(Some("event123"), s, w[1], w[2], transparency, creator, d) :
        s \in {None, Some(T_Team)}, w \in WireTimes,
        transparency \in {None, Some("opaque"), Some("transparent"), Some("Transparent"),
                          Some("tentative")},
        creator \in {None, Some([email |-> Some(<<"a", "@", "b", ".", "c">>)])},
        d \in {None, Some(D_Therapy)}}

\* the events to_google_event is tried on: timed and all-day ones, with and
\* without tzinfo, east and west of Greenwich, over a leap day, with a time
\* of day on an all-day event, with no, an empty and a real description
RoundTripTimes ==
    {<<naive(FirstDay, 18), naive(FirstDay, 22)>>,
     <<replace(naive(FirstDay, 9), 9, 30), replace(naive(FirstDay, 10), 10, 45)>>,
     <<aware(LeapDay, 23, -4), aware(LeapDay + 1, 1, -4)>>,
     <<aware(FirstDay, 0, 0), aware(FirstDay + 1, 0, 0)>>,
     <<aware(FirstDay, 18, 2), aware(FirstDay, 22, 2)>>,
     <<naive(FirstDay, 0), naive(FirstDay + 5, 0)>>}
RoundTripEvents ==
    {CalendarEvent("test", s, w[1], w[2], status, d, all_day) :
        s \in {<<>>, T_Vacation}, w \in RoundTripTimes, status \in EventStatus,
        d \in Descriptions, all_day \in BOOLEAN}

\* the bounds of a run of the poll manager
MaxPolls == 1         \* polls created in one run
MaxVotes == 2         \* votes cast in one run

\* the clock when a run starts: 13:00 on the first day
StartOfRun == (FirstDay * 24 + 13) * 60

\* a message of the channel that is no poll
TextMessage == [id |-> 0, poll |-> None]

\* the slots a poll is created for, as find_available_dates returns them:
\* none, two days, and three days around a blocked one
PollSlots ==
    {find_available_dates(<<>>, utcnow(StartOfRun), 0, None),
     find_available_dates(<<>>, utcnow(StartOfRun), 2, None),
     find_available_dates(<<E_Doctor>>, utcnow(StartOfRun), 4, None)}
PollDurations == {24, 48}

\* the shared calendar of the hygiene sync: events of the next two weeks, one
\* that is over, one whose dict has no transparency, two with a creator
MaxSyncs == 1         \* runs of the hygiene sync
E_Past == CalendarEvent("12", T_Doctor, naive(FirstDay - 1, 9), naive(FirstDay - 1, 10),
                        BUSY, None, FALSE)
M_Ann == <<"a", "n", "n", "@", "x">>
M_AnnAsTyped == <<"A", "n", "n", "@", "x">>
M_Bob == <<"b", "o", "b", "@", "x">>
UserMapping(discord_id, calendar_email) ==
    [discord_id |-> discord_id, calendar_email |-> calendar_email]
Players == <<UserMapping(7, M_AnnAsTyped)>>
Item(e, transparency, creator) ==
    [to_google_event(e) EXCEPT !.id = Some(e.id), !.transparency = transparency,
                               !.creator = creator]
CreatedBy(email) == Some([email |-> Some(email)])
Calendars ==
    {<<>>,
     <<Item(E_Past, Some(BUSY), None), Item(E_Doctor, Some(BUSY), CreatedBy(M_Ann)),
       Item(E_Dnd, Some(BUSY), None)>>,
     <<Item(E_ConfTwoDays, Some(BUSY), None), Item(E_Team, Some(FREE), None),
       Item(E_DndTrip, Some(FREE), None)>>,
     <<Item(E_Dnd, Some(BUSY), None), Item(E_DentistHoliday, None, CreatedBy(M_Bob)),
       Item(E_Vacation, Some(BUSY), None)>>}
NotRunning == [pc |-> "idle", events |-> <<>>, needs_fix |-> <<>>, i |-> 1, runs |-> 0]

\* the channel and the calendar of the polls: thirteen busy days ahead of the
\* players, who ask for a poll by the command and by the modal
MaxStarts == 2        \* poll-creating operations begun
MaxTicks == 2         \* days the clock moves on
Creators == {"weekly", "pollnow", "modal"}
E_DayOf(k) ==
    CalendarEvent(ToString(100 + k), T_Team, naive(FirstDay + k, 9), naive(FirstDay + k, 10),
                  FREE, None, FALSE)
BusyFortnight == [k \in 1..13 |-> Item(E_DayOf(k - 1), Some(FREE), None)]
PollNowArgs == {[start_day |-> 0, days_ahead |-> 2], [start_day |-> 12, days_ahead |-> 2]}
ModalValues ==
    {[start_day |-> <<"1", "2">>, days_ahead |-> <<"2">>],
     [start_day |-> <<"1", "5">>, days_ahead |-> <<"2">>],
     [start_day |-> <<"x">>, days_ahead |-> <<"2">>]}
StoredSettings == {{[key |-> K_PollDurationDays, value |-> <<"1">>]}}
Resting == [pc |-> "idle", available |-> <<>>, duration_hours |-> 0, message |-> None]
NotChecking == [pc |-> "idle", active_poll |-> None, winning_date |-> None]

\* what /config schedule is called with
ScheduleHours == 0..23
ScheduleDurations == {2}

\* the calendar and the users of the reminders: two sessions an hour and a
\* day ahead, a meeting at the time of a session, half-hour runs
MaxHalfHours == 5     \* half hours the clock moves on
E_SessionSoon == CalendarEvent("21", T_RaidNight, naive(FirstDay, 14), naive(FirstDay, 18),
                               BUSY, None, FALSE)
E_SessionTomorrow == CalendarEvent("22", T_DndSession, naive(FirstDay + 1, 14),
                                   naive(FirstDay + 1, 18), BUSY, None, FALSE)
E_MeetingTomorrow == CalendarEvent("23", T_Team, naive(FirstDay + 1, 14),
                                   naive(FirstDay + 1, 15), FREE, None, FALSE)
SessionCalendar ==
    <<Item(E_SessionSoon, Some(BUSY), None), Item(E_SessionTomorrow, Some(BUSY), None),
      Item(E_MeetingTomorrow, Some(FREE), None)>>
Party == <<UserMapping(7, M_AnnAsTyped), UserMapping(8, M_Bob)>>
Registered == {<<>>, Party}
ReminderHours == {0, 1, 24}
NotReminding == [pc |-> "idle", hours |-> 0, dnd_sessions |-> <<>>, i |-> 1]

-----------------------------------------------------------------------------
(* The analyzer and its callers *)

\* the state of the bot around the analyzer
bot == <<stored, heap, built, bot_event_analyzer, handler, held>>

\* the state of the services around the bot
world == <<db, discord, gcal, tasks, now, scheduler>>

\* no poll, no message, no calendar event, no job
Offline ==
    /\ db = EmptyStorage
    /\ discord = [messages |-> <<>>, notices |-> <<>>, dms |-> <<>>]
    /\ gcal = [items |-> <<>>, updates |-> <<>>]
    /\ tasks = <<>>
    /\ now = 0
    /\ scheduler = <<>>

\* EventAnalyzer.__init__
Construct(d, a, p) ==
    /\ pc = "ready"
    /\ ctor_args' = [dnd_keywords |-> d, away_keywords |-> a, personal_keywords |-> p]
    /\ dnd_keywords' = or_else(d, DEFAULT_DND_KEYWORDS)
    /\ away_keywords' = or_else(a, DEFAULT_AWAY_KEYWORDS)
    /\ personal_keywords' = or_else(p, DEFAULT_PERSONAL_KEYWORDS)
    /\ op' = "__init__"
    /\ UNCHANGED <<pc, event, events, start_date, days_ahead, preferred_day, ret, args>>
    /\ UNCHANGED <<bot, world>>

\* the handler's locals before any is assigned
NoLocals ==
    [pc |-> "idle", category |-> "", keyword |-> <<>>, keywords |-> 0, dnd_keywords |-> 0,
     away_keywords |-> 0, commands |-> 0]

\* a bot just constructed over a storage that holds st
Constructed(st) ==
    /\ stored = st
    /\ heap = InitialHeap
    /\ built = <<>>
    /\ bot_event_analyzer = None
    /\ handler = [NoLocals EXCEPT !.pc = "setup"]
    /\ held = None

\* a bot with the default analyzer and no call in progress
Idle ==
    /\ Constructed(NoOverrides)
    /\ ctor_args = [dnd_keywords |-> None, away_keywords |-> None, personal_keywords |-> None]
    /\ dnd_keywords = DEFAULT_DND_KEYWORDS
    /\ away_keywords = DEFAULT_AWAY_KEYWORDS
    /\ personal_keywords = DEFAULT_PERSONAL_KEYWORDS
    /\ pc = "ready"
    /\ op = "__init__"
    /\ event = None
    /\ events = None
    /\ start_date = None
    /\ days_ahead = None
    /\ preferred_day = None
    /\ ret = None
    /\ args = None

Init == Offline /\ Idle

analyzer == <<ctor_args, dnd_keywords, away_keywords, personal_keywords>>

\* a call of a method that takes one event
CallOnEvent(name, e, result) ==
    /\ pc = "ready"
    /\ pc' = "returned"
    /\ op' = name
    /\ args' = Some([event |-> e])
    /\ event' = passed_event(name, e)
    /\ ret' = result
    /\ UNCHANGED <<analyzer, events, start_date, days_ahead, preferred_day, bot, world>>

\* a call of a method that takes a list of events
CallOnEvents(name, evs, result) ==
    /\ pc = "ready"
    /\ pc' = "returned"
    /\ op' = name
    /\ args' = Some([events |-> evs])
    /\ events' = passed_events(name, evs)
    /\ ret' = result
    /\ UNCHANGED <<analyzer, event, start_date, days_ahead, preferred_day, bot, world>>

IsDndSession == \E e \in TextEvents : CallOnEvent("is_dnd_session", e, is_dnd_session(e))

IsAwayEvent == \E e \in TextEvents : CallOnEvent("is_away_event", e, is_away_event(e))

GetCategory == \E e \in TextEvents : CallOnEvent("get_category", e, get_category(e))

ShouldBeFree ==
    \E e \in TextEvents \cup StatusEvents :
        CallOnEvent("should_be_free", e, should_be_free(e))

DetectPersonalKeywords ==
    \E e \in TextEvents :
        CallOnEvent("detect_personal_keywords", e, detect_personal_keywords(e))

AnalyzeEvent ==
    \E e \in TextEvents \cup StatusEvents :
        CallOnEvent("analyze_event", e, analyze_event(e))

FindPersonalEvents ==
    \E evs \in PersonalEvents :
        CallOnEvents("find_personal_events", evs, find_personal_events(evs))

FindEventsNeedingFix ==
    \E evs \in SeqsUpTo(StatusEvents, MaxEvents) \cup {SampleEvents} :
        CallOnEvents("find_events_needing_fix", evs, find_events_needing_fix(evs))

FindAwayEvents ==
    \E evs \in SeqsUpTo(StatusEvents, MaxEvents) \cup {SampleEvents} :
        CallOnEvents("find_away_events", evs, find_away_events(evs))

FindAvailableDates ==
    \E evs \in ResolverEvents, s \in StartDates,
       n \in -1..MaxDaysAhead, p \in PreferredDays :
        /\ pc = "ready"
        /\ pc' = "returned"
        /\ op' = "find_available_dates"
        /\ args' = Some([events |-> evs, start_date |-> s, days_ahead |-> n,
                          preferred_day |-> p])
        /\ events' = passed_events("find_available_dates", evs)
        /\ start_date' = s
        /\ days_ahead' = n
        /\ preferred_day' = p
        /\ ret' = find_available_dates(evs, s, n, p)
        /\ UNCHANGED <<analyzer, event, bot, world>>

\* the caller takes the result; the analyzer keeps nothing of the call
Return ==
    /\ pc = "returned"
    /\ pc' = "ready"
    /\ op' = "__init__"
    /\ event' = None
    /\ events' = None
    /\ start_date' = None
    /\ days_ahead' = None
    /\ preferred_day' = None
    /\ ret' = None
    /\ args' = None
    /\ UNCHANGED <<analyzer, bot, world>>

Next ==
    \/ \E d \in DndArgs, a \in AwayArgs, p \in PersonalArgs : Construct(d, a, p)
    \/ IsDndSession
    \/ IsAwayEvent
    \/ GetCategory
    \/ ShouldBeFree
    \/ DetectPersonalKeywords
    \/ AnalyzeEvent
    \/ FindEventsNeedingFix
    \/ FindPersonalEvents
    \/ FindAwayEvents
    \/ Return

\* the classifier: every keyword configuration, every classifying method
Spec == Init /\ [][Next]_vars

NextResolver ==
    \/ FindAvailableDates
    \/ Return

\* the availability resolver, which reads no keyword list
SpecResolver == Init /\ [][NextResolver]_vars

\* PollManager.create_dnd_event
CreateDndEvent ==
    \E date \in SessionDates, title \in SessionTitles,
       duration_hours \in SessionDurations, description \in Descriptions :
        /\ pc = "ready"
        /\ pc' = "returned"
        /\ op' = "create_dnd_event"
        /\ args' = Some([date |-> date, title |-> title, duration_hours |-> duration_hours,
                          description |-> description])
        /\ ret' = create_dnd_event(date, param(title, DEFAULT_TITLE),
                                    param(duration_hours, DEFAULT_DURATION_HOURS),
                                    description)
        /\ UNCHANGED <<analyzer, event, events, start_date, days_ahead, preferred_day, bot, world>>

NextPolls ==
    \/ CreateDndEvent
    \/ Return

\* the poll manager building the event of a session
SpecPolls == Init /\ [][NextPolls]_vars

\* what a step of the bot leaves alone: the analyzer of the other
\* specifications and the call in progress
call == <<pc, op, event, events, start_date, days_ahead, preferred_day, ret, args>>

\* setup_hook: storage.initialize(), then reload_event_analyzer()
SetupHook ==
    /\ handler.pc = "setup"
    /\ handler' = [handler EXCEPT !.pc = "reload_dnd"]
    /\ UNCHANGED <<analyzer, call, world, stored, heap, built, bot_event_analyzer, held>>

\* reload_event_analyzer: dnd_keywords = await ... or self.config.dnd_keywords
ReloadDnd ==
    /\ handler.pc = "reload_dnd"
    /\ LET got == keywords_or_config(heap, stored, "dnd")
       IN  /\ heap' = got.heap
           /\ handler' = [handler EXCEPT !.pc = "reload_away", !.dnd_keywords = got.ref]
    /\ UNCHANGED <<analyzer, call, world, stored, built, bot_event_analyzer, held>>

\* reload_event_analyzer: away_keywords = await ... or self.config.away_keywords
ReloadAway ==
    /\ handler.pc = "reload_away"
    /\ LET got == keywords_or_config(heap, stored, "away")
       IN  /\ heap' = got.heap
           /\ handler' = [handler EXCEPT !.pc = "reload_personal", !.away_keywords = got.ref]
    /\ UNCHANGED <<analyzer, call, world, stored, built, bot_event_analyzer, held>>

\* reload_event_analyzer: personal_keywords = await ... or
\* self.config.personal_keywords, then self._event_analyzer = EventAnalyzer(...)
ReloadPersonal ==
    /\ handler.pc = "reload_personal"
    /\ LET got == keywords_or_config(heap, stored, "personal")
       IN  /\ heap' = got.heap
           /\ built' = Append(built, EventAnalyzer(got.heap, handler.dnd_keywords,
                                                   handler.away_keywords, got.ref))
           /\ bot_event_analyzer' = Some(Len(built) + 1)
    /\ handler' = [NoLocals EXCEPT !.commands = handler.commands]
    /\ UNCHANGED <<analyzer, call, world, stored, held>>

\* /keywords add: keywords = await ... or list(self.bot.config.<c>_keywords)
KeywordsAdd ==
    \E category \in Categories, keyword \in CommandKeywords :
        /\ handler.pc = "idle"
        /\ handler.commands < MaxCommands
        /\ LET got == keywords_or_copy(heap, stored, category)
           IN  /\ heap' = got.heap
               /\ handler' = [handler EXCEPT !.pc = "add", !.category = category,
                                              !.keyword = keyword, !.keywords = got.ref,
                                              !.commands = @ + 1]
        /\ UNCHANGED <<analyzer, call, world, stored, built, bot_event_analyzer, held>>

\* /keywords add: the keyword is there already, or keywords.append(keyword)
\* and await storage.set_keywords(category, keywords)
AddSave ==
    /\ handler.pc = "add"
    /\ IF has_keyword(heap[handler.keywords], handler.keyword)
       THEN /\ handler' = [NoLocals EXCEPT !.commands = handler.commands]
            /\ UNCHANGED <<heap, stored>>
       ELSE /\ heap' = [heap EXCEPT ![handler.keywords] = Append(@, handler.keyword)]
            /\ stored' = set_keywords(stored, handler.category, heap'[handler.keywords])
            /\ handler' = [handler EXCEPT !.pc = "reload_dnd"]
    /\ UNCHANGED <<analyzer, call, world, built, bot_event_analyzer, held>>

\* /keywords remove: keywords = await ... or list(self.bot.config.<c>_keywords)
KeywordsRemove ==
    \E category \in Categories, keyword \in CommandKeywords :
        /\ handler.pc = "idle"
        /\ handler.commands < MaxCommands
        /\ LET got == keywords_or_copy(heap, stored, category)
           IN  /\ heap' = got.heap
               /\ handler' = [handler EXCEPT !.pc = "remove", !.category = category,
                                              !.keyword = keyword, !.keywords = got.ref,
                                              !.commands = @ + 1]
        /\ UNCHANGED <<analyzer, call, world, stored, built, bot_event_analyzer, held>>

\* /keywords remove: the keyword is not there, or the list without it is
\* built and await storage.set_keywords(category, keywords)
RemoveSave ==
    /\ handler.pc = "remove"
    /\ LET kept == without_keyword(heap[handler.keywords], handler.keyword)
       IN  IF Len(kept) = Len(heap[handler.keywords])
           THEN /\ handler' = [NoLocals EXCEPT !.commands = handler.commands]
                /\ UNCHANGED <<heap, stored>>
           ELSE /\ heap' = new_list(heap, kept).heap
                /\ stored' = set_keywords(stored, handler.category, kept)
                /\ handler' = [handler EXCEPT !.pc = "reload_dnd",
                                               !.keywords = new_list(heap, kept).ref]
    /\ UNCHANGED <<analyzer, call, world, built, bot_event_analyzer, held>>

\* a job reads the property bot.event_analyzer, which builds an analyzer from
\* the Config lists if the bot has none yet, and keeps what it got
TakeAnalyzer ==
    /\ pc = "ready"
    /\ IF bot_event_analyzer.isNone
       THEN /\ built' = Append(built, EventAnalyzer(heap, ConfigRef.dnd, ConfigRef.away,
                                                    ConfigRef.personal))
            /\ bot_event_analyzer' = Some(Len(built) + 1)
       ELSE UNCHANGED <<built, bot_event_analyzer>>
    /\ held' = bot_event_analyzer'
    /\ UNCHANGED <<analyzer, call, world, stored, heap, handler>>

\* the job classifies an event with the analyzer it keeps
ClassifyWithHeld ==
    \E e \in BotEvents :
        /\ pc = "ready"
        /\ ~held.isNone
        /\ pc' = "returned"
        /\ op' = "get_category"
        /\ args' = Some([event |-> e])
        /\ event' = passed_event("get_category", e)
        /\ ret' = get_category_of(keyword_lists(heap, built[held.val]), e)
        /\ UNCHANGED <<analyzer, events, start_date, days_ahead, preferred_day, bot, world>>

InitBot ==
    /\ Offline
    /\ \E st \in StoredKeywords : Constructed(st)
    /\ ctor_args = [dnd_keywords |-> None, away_keywords |-> None, personal_keywords |-> None]
    /\ dnd_keywords = DEFAULT_DND_KEYWORDS
    /\ away_keywords = DEFAULT_AWAY_KEYWORDS
    /\ personal_keywords = DEFAULT_PERSONAL_KEYWORDS
    /\ pc = "ready"
    /\ op = "__init__"
    /\ event = None
    /\ events = None
    /\ start_date = None
    /\ days_ahead = None
    /\ preferred_day = None
    /\ ret = None
    /\ args = None

NextBot ==
    \/ SetupHook
    \/ ReloadDnd
    \/ ReloadAway
    \/ ReloadPersonal
    \/ KeywordsAdd
    \/ AddSave
    \/ KeywordsRemove
    \/ RemoveSave
    \/ TakeAnalyzer
    \/ ClassifyWithHeld
    \/ Return

\* the bot: its setup, the keyword commands and a job that classifies
SpecBot == InitBot /\ [][NextBot]_vars

NextOperations ==
    \/ IsDndSession
    \/ IsAwayEvent
    \/ GetCategory
    \/ ShouldBeFree
    \/ DetectPersonalKeywords
    \/ AnalyzeEvent
    \/ FindEventsNeedingFix
    \/ FindPersonalEvents
    \/ FindAwayEvents
    \/ FindAvailableDates
    \/ Return

\* every operation of one analyzer, classifying and resolving
SpecOperations == Init /\ [][NextOperations]_vars

\* CalendarEvent.from_google_event(event)
FromGoogleEvent ==
    \E e \in WireEvents :
        /\ pc = "ready"
        /\ pc' = "returned"
        /\ op' = "from_google_event"
        /\ args' = Some([event |-> e])
        /\ ret' = from_google_event(e)
        /\ UNCHANGED <<analyzer, event, events, start_date, days_ahead, preferred_day, bot,
                       world>>

\* event.to_google_event()
ToGoogleEvent ==
    \E e \in RoundTripEvents :
        /\ pc = "ready"
        /\ pc' = "returned"
        /\ op' = "to_google_event"
        /\ args' = Some([self |-> e])
        /\ event' = e
        /\ ret' = to_google_event(e)
        /\ UNCHANGED <<analyzer, events, start_date, days_ahead, preferred_day, bot, world>>

\* CalendarEvent.from_google_event(event.to_google_event()): the dict that
\* was just written is read back
ReadBack ==
    /\ pc = "returned"
    /\ op = "to_google_event"
    /\ op' = "from_google_event"
    /\ args' = Some([event |-> ret])
    /\ ret' = from_google_event(ret)
    /\ UNCHANGED <<analyzer, pc, event, events, start_date, days_ahead, preferred_day, bot,
                   world>>

NextModels ==
    \/ FromGoogleEvent
    \/ ToGoogleEvent
    \/ ReadBack
    \/ Return

\* the conversions between a CalendarEvent and the dict of the API
SpecModels == Init /\ [][NextModels]_vars

\* poll_manager.create_scheduling_poll(channel, available_slots, duration_hours)
CreateSchedulingPoll ==
    \E available_slots \in PollSlots, duration_hours \in PollDurations :
        /\ pc = "ready"
        /\ available_slots = <<>> \/ Len(db.polls) < MaxPolls
        /\ LET done == create_scheduling_poll(db, discord, available_slots, duration_hours, now)
           IN  /\ pc' = "returned"
               /\ op' = "create_scheduling_poll"
               /\ args' = Some([available_slots |-> available_slots,
                                 duration_hours |-> duration_hours])
               /\ ret' = done.ret
               /\ discord' = done.discord
               /\ db' = done.storage
        /\ UNCHANGED <<analyzer, event, events, start_date, days_ahead, preferred_day, bot,
                       gcal, tasks, now, scheduler>>

\* a member of the channel votes for an answer of a poll
Vote ==
    \E m \in 1..Len(discord.messages) :
        /\ pc = "ready"
        /\ ~discord.messages[m].poll.isNone
        /\ all_votes_cast(discord.messages) < MaxVotes
        /\ \E a \in 1..Len(discord.messages[m].poll.val.answers) :
              discord' = [discord EXCEPT
                             !.messages[m].poll.val.answers[a].vote_count = @ + 1]
        /\ UNCHANGED <<analyzer, call, bot, db, gcal, tasks, now, scheduler>>

\* poll_manager.close_poll_and_get_winner(poll_record, message) for a poll
\* record of storage and the message of that poll, or a message without poll
ClosePollAndGetWinner ==
    \E i \in 1..Len(db.polls) :
        \E message \in {fetch_message(discord, db.polls[i].message_id), TextMessage} :
            /\ pc = "ready"
            /\ LET done == close_poll_and_get_winner(db, row_to_poll(db.polls[i]), message)
               IN  /\ pc' = "returned"
                   /\ op' = "close_poll_and_get_winner"
                   /\ args' = Some([poll_record |-> row_to_poll(db.polls[i]),
                                     message |-> message])
                   /\ ret' = done.ret
                   /\ db' = done.storage
            /\ UNCHANGED <<analyzer, event, events, start_date, days_ahead, preferred_day,
                           bot, discord, gcal, tasks, now, scheduler>>

\* a bot whose clock shows the start of the run
InitPollManager ==
    /\ Idle
    /\ db = EmptyStorage
    /\ discord = [messages |-> <<>>, notices |-> <<>>, dms |-> <<>>]
    /\ gcal = [items |-> <<>>, updates |-> <<>>]
    /\ tasks = <<>>
    /\ now = StartOfRun
    /\ scheduler = <<>>

NextPollManager ==
    \/ CreateSchedulingPoll
    \/ Vote
    \/ ClosePollAndGetWinner
    \/ Return

\* the poll manager called directly: polls are created, voted on and closed
SpecPollManager == InitPollManager /\ [][NextPollManager]_vars

\* sync_calendar_hygiene up to its loop: the events of the next two weeks are
\* fetched and those to fix are found
SyncCalendarHygiene ==
    /\ tasks.hygiene.pc = "idle"
    /\ tasks.hygiene.runs < MaxSyncs
    /\ LET fetched == get_events(gcal.items, utcnow(now), add_days(utcnow(now), 14))
       IN  tasks' = [tasks EXCEPT !.hygiene =
                        [pc |-> "fixing", events |-> fetched,
                         needs_fix |-> find_events_needing_fix(fetched), i |-> 1,
                         runs |-> @.runs + 1]]
    /\ UNCHANGED <<analyzer, call, bot, db, discord, gcal, now, scheduler>>

\* one turn of the loop over needs_fix: the status is set and the fix is
\* announced, or the API call raises and the error is logged
FixEvent ==
    /\ tasks.hygiene.pc = "fixing"
    /\ tasks.hygiene.i <= Len(tasks.hygiene.needs_fix)
    /\ LET e == tasks.hygiene.needs_fix[tasks.hygiene.i]
       IN  \/ /\ gcal' = update_event_status(gcal, e.id, FREE)
              /\ discord' = fix_notification(discord, get_all_user_mappings(db), e)
           \/ /\ gcal' = update_event_status_fails(gcal, e.id, FREE)
              /\ UNCHANGED discord
    /\ tasks' = [tasks EXCEPT !.hygiene.i = @ + 1]
    /\ UNCHANGED <<analyzer, call, bot, db, now, scheduler>>

\* the rest of sync_calendar_hygiene: the creators of personal events are
\* alerted
AlertPersonalEvents ==
    /\ tasks.hygiene.pc = "fixing"
    /\ tasks.hygiene.i > Len(tasks.hygiene.needs_fix)
    /\ discord' = alert_personal_events(discord, get_all_user_mappings(db),
                                        find_personal_events(tasks.hygiene.events))
    /\ tasks' = [tasks EXCEPT !.hygiene.pc = "idle"]
    /\ UNCHANGED <<analyzer, call, bot, db, gcal, now, scheduler>>

\* a player edits the status of an event in the calendar
PlayerSetsStatus ==
    /\ \E k \in DOMAIN gcal.items, status \in EventStatus :
          /\ gcal.items[k].transparency # Some(status)
          /\ gcal' = [gcal EXCEPT !.items[k].transparency = Some(status)]
    /\ UNCHANGED <<analyzer, call, bot, db, discord, tasks, now, scheduler>>

InitHygiene ==
    /\ Idle
    /\ db = [EmptyStorage EXCEPT !.user_mappings = Players]
    /\ discord = [messages |-> <<>>, notices |-> <<>>, dms |-> <<>>]
    /\ gcal \in {[items |-> c, updates |-> <<>>] : c \in Calendars}
    /\ tasks = [hygiene |-> NotRunning]
    /\ now = StartOfRun
    /\ scheduler = <<>>

NextHygiene ==
    \/ SyncCalendarHygiene
    \/ FixEvent
    \/ AlertPersonalEvents
    \/ PlayerSetsStatus

\* the hygiene job running on a calendar its players edit
SpecHygiene == InitHygiene /\ [][NextHygiene]_vars

\* what the three poll-creating operations do after `active_poll = await
\* get_active_poll()`, up to the next await: they return when a poll is
\* active, they look for dates and report when there is none, or they go on
\* to create the poll
CheckThenPrepare(p, search_from, days, default_hours, notify) ==
    /\ tasks[p].pc = "idle"
    /\ tasks.started < MaxStarts
    /\ \E active_poll \in get_active_poll(db) :
          LET found == get_events(gcal.items, search_from, add_days(search_from, days))
              available == find_available_dates(found, search_from, days, None)
              duration_setting == get_setting(db, K_PollDurationDays)
              duration_hours == IF truthy(duration_setting)
                                THEN int(duration_setting.val) * 24 ELSE default_hours
          IN  IF ~active_poll.isNone
              THEN /\ tasks' = [tasks EXCEPT !.started = @ + 1]
                   /\ UNCHANGED discord
              ELSE IF available = <<>>
              THEN /\ tasks' = [tasks EXCEPT !.started = @ + 1]
                   /\ discord' = IF notify THEN send_notification(discord, "no_dates", 0)
                                 ELSE discord
              ELSE /\ tasks' = [tasks EXCEPT !.started = @ + 1,
                                             ![p] = [pc |-> "prepared",
                                                     available |-> available,
                                                     duration_hours |-> duration_hours,
                                                     message |-> None]]
                   /\ UNCHANGED discord
    /\ UNCHANGED <<analyzer, call, bot, db, gcal, now, scheduler>>

\* ScheduledTasks.post_weekly_poll up to the call of create_scheduling_poll
PostWeeklyPoll ==
    /\ tasks.weekly.pc = "idle"
    /\ CheckThenPrepare("weekly", utcnow(now), 14, 48, TRUE)

\* /dnd pollnow up to the call of create_scheduling_poll
PollNow ==
    /\ tasks.pollnow.pc = "idle"
    /\ \E a \in PollNowArgs :
          CheckThenPrepare("pollnow", add_days(utcnow(now), a.start_day), a.days_ahead,
                           48, FALSE)

\* PollNowModal.on_submit up to the call of create_scheduling_poll: the two
\* fields are read with int() and their ranges are checked first
PollNowModalOnSubmit ==
    \E v \in ModalValues :
        IF ~is_decimal(v.start_day) \/ ~is_decimal(v.days_ahead)
              \/ ~(0 <= int(v.start_day) /\ int(v.start_day) <= 14)
              \/ ~(1 <= int(v.days_ahead) /\ int(v.days_ahead) <= 14)
        THEN /\ tasks.modal.pc = "idle"
             /\ tasks.started < MaxStarts
             /\ tasks' = [tasks EXCEPT !.started = @ + 1]
             /\ UNCHANGED <<analyzer, call, bot, db, discord, gcal, now, scheduler>>
        ELSE CheckThenPrepare("modal", add_days(utcnow(now), int(v.start_day)),
                              int(v.days_ahead), 48, FALSE)

\* the call create_scheduling_poll(channel, available, duration_hours=...,
\* away_events=..., tag_everyone=...) up to `await channel.send(poll=poll)`.
\* PollManager.create_scheduling_poll of polls.py takes neither away_events
\* nor tag_everyone: the call raises TypeError, or it runs the method with
\* the parameters its three callers pass
SendPoll ==
    \E p \in Creators :
        /\ tasks[p].pc = "prepared"
        /\ \/ /\ tasks' = [tasks EXCEPT ![p] = Resting]
              /\ UNCHANGED discord
           \/ /\ discord' = send(discord, Some(Poll(slots_to_use(tasks[p].available))))
              /\ tasks' = [tasks EXCEPT ![p].pc = "sent",
                                        ![p].message = Some(discord'.messages[Len(discord'.messages)])]
        /\ UNCHANGED <<analyzer, call, bot, db, gcal, now, scheduler>>

\* create_scheduling_poll after the message is sent: `await
\* self.storage.create_poll(poll_record, options)`
StorePoll ==
    \E p \in Creators :
        /\ tasks[p].pc = "sent"
        /\ db' = store_poll(db, tasks[p].message.val, tasks[p].available,
                            tasks[p].duration_hours, now)
        /\ tasks' = [tasks EXCEPT ![p] = Resting]
        /\ UNCHANGED <<analyzer, call, bot, discord, gcal, now, scheduler>>

\* check_poll_completion up to `await channel.fetch_message(...)`
CheckPollCompletion ==
    /\ tasks.completion.pc = "idle"
    /\ \E active_poll \in get_active_poll(db) :
          IF active_poll.isNone THEN UNCHANGED tasks
          ELSE IF utc_minutes(utcnow(now)) < utc_minutes(active_poll.val.closes_at)
          THEN UNCHANGED tasks
          ELSE tasks' = [tasks EXCEPT !.completion =
                            [pc |-> "fetching", active_poll |-> active_poll,
                             winning_date |-> None]]
    /\ UNCHANGED <<analyzer, call, bot, db, discord, gcal, now, scheduler>>

\* check_poll_completion: the message is fetched and the poll is closed; with
\* no winning date the channel is told so and the job returns
FetchAndClosePoll ==
    /\ tasks.completion.pc = "fetching"
    /\ \E active_poll \in {tasks.completion.active_poll.val} :
       \E message \in {fetch_message(discord, active_poll.message_id)} :
          IF has_raised(message)
          THEN /\ tasks' = [tasks EXCEPT !.completion = NotChecking]
               /\ UNCHANGED <<db, discord>>
          ELSE \E done \in {close_poll_and_get_winner(db, active_poll, message)} :
                  IF done.ret.isNone
                  THEN /\ tasks' = [tasks EXCEPT !.completion = NotChecking]
                       /\ db' = done.storage
                       /\ discord' = send_notification(discord, "no_votes", active_poll.id)
                  ELSE /\ tasks' = [tasks EXCEPT !.completion =
                                       [pc |-> "scheduling",
                                        active_poll |-> Some(done.poll_record),
                                        winning_date |-> done.ret]]
                       /\ db' = done.storage
                       /\ UNCHANGED discord
    /\ UNCHANGED <<analyzer, call, bot, gcal, now, scheduler>>

\* check_poll_completion with a winning date: the session is put in the
\* calendar, its id is stored with the poll and the session is announced
ScheduleSession ==
    /\ tasks.completion.pc = "scheduling"
    /\ \E active_poll \in {tasks.completion.active_poll.val} :
       \E session \in {create_dnd_event(tasks.completion.winning_date.val, DEFAULT_TITLE,
                                         DEFAULT_DURATION_HOURS, Some(DEFAULT_DESCRIPTION))} :
       \E created \in {create_event(gcal, session)} :
       \E updated \in {[active_poll EXCEPT !.created_event_id =
                           created.items[Len(created.items)].id]} :
          /\ gcal' = created
          /\ db' = update_poll(db, updated)
          /\ discord' = send_notification(discord, "scheduled", active_poll.id)
    /\ tasks' = [tasks EXCEPT !.completion = NotChecking]
    /\ UNCHANGED <<analyzer, call, bot, now, scheduler>>

\* a day passes
Tick ==
    /\ now < StartOfRun + MaxTicks * 1440
    /\ now' = now + 1440
    /\ UNCHANGED <<analyzer, call, bot, db, discord, gcal, tasks, scheduler>>

InitPolling ==
    /\ Idle
    /\ db \in {[EmptyStorage EXCEPT !.settings = s] : s \in StoredSettings}
    /\ discord = [messages |-> <<>>, notices |-> <<>>, dms |-> <<>>]
    /\ gcal = [items |-> BusyFortnight, updates |-> <<>>]
    /\ tasks = [weekly |-> Resting, pollnow |-> Resting, modal |-> Resting,
                completion |-> NotChecking, started |-> 0]
    /\ now = StartOfRun
    /\ scheduler = <<>>

NextPolling ==
    \/ PostWeeklyPoll
    \/ PollNow
    \/ PollNowModalOnSubmit
    \/ SendPoll
    \/ StorePoll
    \/ Tick

\* the weekly job, the command and the modal on one event loop: a step runs
\* one of them from an await to the next
SpecPolling == InitPolling /\ [][NextPolling]_vars

NextCompletion ==
    \/ PostWeeklyPoll
    \/ SendPoll
    \/ StorePoll
    \/ Vote
    \/ CheckPollCompletion
    \/ FetchAndClosePoll
    \/ ScheduleSession
    \/ Tick

\* the weekly job posts polls, the players vote, the completion job runs
SpecCompletion == InitPolling /\ [][NextCompletion]_vars

\* SpecCompletion with the completion job run again and again, as its
\* interval trigger does
SpecCompletionFair ==
    /\ SpecCompletion
    /\ WF_vars(CheckPollCompletion)
    /\ WF_vars(FetchAndClosePoll)
    /\ WF_vars(ScheduleSession)

\* /config schedule day hour duration timezone: the settings are stored and
\* the scheduler is reloaded
ConfigSchedule ==
    \E day \in Range(DayNames), hour \in ScheduleHours, duration \in ScheduleDurations :
        \E saved \in {set_setting(set_setting(set_setting(db, K_ScheduleDay, day),
                                              K_ScheduleHour, str(hour)),
                                  K_PollDurationDays, str(duration))} :
            /\ db' = saved
            /\ scheduler' = reload_schedule(saved)
            /\ UNCHANGED <<analyzer, call, bot, discord, gcal, tasks, now>>

\* the schedule modal: hour and duration are stored, the day is kept
ScheduleModalOnSubmit ==
    \E hour \in ScheduleHours, duration \in ScheduleDurations :
        \E saved \in {set_setting(set_setting(db, K_ScheduleHour, str(hour)),
                                  K_PollDurationDays, str(duration))} :
            /\ db' = saved
            /\ scheduler' = reload_schedule(saved)
            /\ UNCHANGED <<analyzer, call, bot, discord, gcal, tasks, now>>

\* SchedulerRunner.__init__ has run
InitScheduler ==
    /\ Idle
    /\ db = EmptyStorage
    /\ discord = [messages |-> <<>>, notices |-> <<>>, dms |-> <<>>]
    /\ gcal = [items |-> <<>>, updates |-> <<>>]
    /\ tasks = <<>>
    /\ now = StartOfRun
    /\ scheduler = setup_jobs

NextScheduler ==
    \/ ConfigSchedule
    \/ ScheduleModalOnSubmit

\* the jobs of the scheduler while the schedule is configured
SpecScheduler == InitScheduler /\ [][NextScheduler]_vars

\* send_session_reminders up to its loop over the sessions
SendSessionReminders ==
    /\ tasks.reminders.pc = "idle"
    /\ \E reminder_hours \in {get_setting(db, K_ReminderHours)} :
          IF reminders_disabled(reminder_hours) THEN UNCHANGED tasks
          ELSE \E dnd_sessions \in {sessions_to_remind(gcal, int(reminder_hours.val), now)} :
                  IF dnd_sessions = <<>> \/ get_all_user_mappings(db) = <<>>
                  THEN UNCHANGED tasks
                  ELSE tasks' = [tasks EXCEPT !.reminders =
                                    [pc |-> "sending", hours |-> int(reminder_hours.val),
                                     dnd_sessions |-> dnd_sessions, i |-> 1]]
    /\ UNCHANGED <<analyzer, call, bot, db, discord, gcal, now, scheduler>>

\* one turn of the loop over the sessions; a user whose DMs are closed gets
\* nothing
RemindSession ==
    /\ tasks.reminders.pc = "sending"
    /\ tasks.reminders.i <= Len(tasks.reminders.dnd_sessions)
    /\ \E reachable \in SUBSET {7, 8} :
          \E done \in {remind_session(db, discord, get_all_user_mappings(db), reachable,
                                      tasks.reminders.dnd_sessions[tasks.reminders.i])} :
              /\ db' = done.storage
              /\ discord' = done.discord
    /\ tasks' = [tasks EXCEPT !.reminders.i = @ + 1]
    /\ UNCHANGED <<analyzer, call, bot, gcal, now, scheduler>>

\* send_session_reminders returns
RemindersSent ==
    /\ tasks.reminders.pc = "sending"
    /\ tasks.reminders.i > Len(tasks.reminders.dnd_sessions)
    /\ tasks' = [tasks EXCEPT !.reminders = NotReminding]
    /\ UNCHANGED <<analyzer, call, bot, db, discord, gcal, now, scheduler>>

\* /dnd reminder hours, between two runs of the job
ConfigReminder ==
    /\ tasks.reminders.pc = "idle"
    /\ \E hours \in ReminderHours :
          \E saved \in {set_setting(db, K_ReminderHours, str(hours))} :
              /\ db' = saved
              /\ scheduler' = reload_schedule(saved)
    /\ UNCHANGED <<analyzer, call, bot, discord, gcal, tasks, now>>

\* half an hour passes between two runs of the job
HalfHourPasses ==
    /\ tasks.reminders.pc = "idle"
    /\ now < StartOfRun + MaxHalfHours * 30
    /\ now' = now + 30
    /\ UNCHANGED <<analyzer, call, bot, db, discord, gcal, tasks, scheduler>>

InitReminders ==
    /\ Idle
    /\ db \in {[EmptyStorage EXCEPT !.user_mappings = m] : m \in Registered}
    /\ discord = [messages |-> <<>>, notices |-> <<>>, dms |-> <<>>]
    /\ gcal = [items |-> SessionCalendar, updates |-> <<>>]
    /\ tasks = [reminders |-> NotReminding]
    /\ now = StartOfRun
    /\ scheduler = setup_jobs

NextReminders ==
    \/ SendSessionReminders
    \/ RemindSession
    \/ RemindersSent
    \/ ConfigReminder
    \/ HalfHourPasses

\* the runs of the reminder job, one after the other, while the hours of the
\* reminder are configured and the clock moves on
SpecReminders == InitReminders /\ [][NextReminders]_vars

-----------------------------------------------------------------------------
(* What the claims are stated with *)

\* sub occurs in s from position i + 1 on, letter for letter
OccursAt(sub, s, i) ==
    /\ i + Len(sub) <= Len(s)
    /\ \A j \in 1..Len(sub) : s[i + j] = sub[j]

\* some keyword of the list, lower-cased, occurs in the lower-cased title
KeywordInTitle(keywords, title) ==
    \E k \in DOMAIN keywords :
        \E i \in 0..Len(title) : OccursAt(lower(keywords[k]), lower(title), i)

\* the text personal keywords are looked for in
SearchText(e) ==
    e.summary \o <<" ">> \o (IF e.description.isNone THEN <<>> ELSE e.description.val)

\* is position p of s a word character (positions outside s are not)
WordAt(s, p) == p \in 1..Len(s) /\ is_word_char(s[p])

\* kw occurs in s, whatever the case of the letters, with a word boundary
\* right before and right after the occurrence
OccursAsWord(kw, s) ==
    \E i \in 0..Len(s) :
        /\ OccursAt(lower(kw), lower(s), i)
        /\ WordAt(s, i) # WordAt(s, i + 1)
        /\ WordAt(s, i + Len(kw)) # WordAt(s, i + Len(kw) + 1)

Returned(name) == pc = "returned" /\ op = name

-----------------------------------------------------------------------------
(* C1 *)

\* C1: get_category returns exactly one category, by first-match priority:
\* DND if is_dnd_session; else AWAY if is_away_event; else PERSONAL if
\* detect_personal_keywords is non-empty; else OTHER.  An event whose title
\* contains a D&D keyword is DND even when away or personal keywords match too.
C1_CategoryPriority ==
    Returned("get_category") =>
        /\ ret \in EventCategory
        /\ (ret = DND) <=> is_dnd_session(event)
        /\ (ret = AWAY) <=> (~is_dnd_session(event) /\ is_away_event(event))
        /\ (ret = PERSONAL) <=>
               /\ ~is_dnd_session(event)
               /\ ~is_away_event(event)
               /\ detect_personal_keywords(event) # <<>>
        /\ (ret = CATEGORY_OTHER) <=>
               /\ ~is_dnd_session(event)
               /\ ~is_away_event(event)
               /\ detect_personal_keywords(event) = <<>>
        /\ KeywordInTitle(dnd_keywords, event.summary) => ret = DND

\* a D&D title that an away keyword matches as well ("D&D Trip") came out DND
C1_Witness ==
    /\ Returned("get_category")
    /\ ret = DND
    /\ KeywordInTitle(dnd_keywords, event.summary)
    /\ KeywordInTitle(away_keywords, event.summary)

-----------------------------------------------------------------------------
(* C2 *)

\* C2: is_dnd_session is true if and only if at least one keyword of
\* dnd_keywords, lower-cased, is a substring of the lower-cased summary (no
\* word boundary is asked for); "Session 42 - The Dragon's Lair" is a D&D
\* session through the keyword "Session".
C2_DndSessionIffSubstring ==
    Returned("is_dnd_session") =>
        /\ ret <=> KeywordInTitle(dnd_keywords, event.summary)
        /\ (event.summary = T_Session42
                /\ \E k \in DOMAIN dnd_keywords : dnd_keywords[k] = DEFAULT_DND_KEYWORDS[5])
            => ret

\* the title of the scenario was found to be a D&D session
C2_Witness ==
    /\ Returned("is_dnd_session")
    /\ event.summary = T_Session42
    /\ dnd_keywords = DEFAULT_DND_KEYWORDS
    /\ ret

-----------------------------------------------------------------------------
(* C3 *)

\* C3: should_be_free(event) equals not is_dnd_session(event): every event
\* with no D&D keyword in its title should be Free, whatever its status and
\* also when it is an away or a personal event, and every D&D session should
\* stay Busy.
C3_ShouldBeFreeIffNotDnd ==
    Returned("should_be_free") =>
        /\ ret = ~is_dnd_session(event)
        /\ ret <=> ~KeywordInTitle(dnd_keywords, event.summary)

\* an away event that is Free already should be Free
C3_Witness ==
    /\ Returned("should_be_free")
    /\ event.status = FREE
    /\ is_away_event(event)
    /\ ret

-----------------------------------------------------------------------------
(* C4 *)

\* the calendar days the window of a search covers
Window == (start_date.ord + 1)..(start_date.ord + days_ahead)

\* the calendar days on which an input event starts
StartDays == {events[j].start.ord : j \in DOMAIN events}

\* the calendar days of the returned slots
ReturnedDays == {ret[i].date.ord : i \in DOMAIN ret}

\* C4: find_available_dates never returns a slot whose date is the calendar
\* day of the start of an input event, also when the start of the event
\* carries a UTC offset and start_date carries none, or another one.
C4_NoSlotOnAnEventDay ==
    Returned("find_available_dates") => ReturnedDays \cap StartDays = {}

-----------------------------------------------------------------------------
(* C5 *)

\* C5: every returned date d satisfies
\* midnight(start_date) + 1 day <= d <= midnight(start_date) + days_ahead days;
\* the day of start_date and the days before it are never returned.
C5_SlotsInsideWindow ==
    Returned("find_available_dates") =>
        \A i \in DOMAIN ret :
            /\ ret[i].date.ord \in Window
            /\ ret[i].date = add_days(midnight(start_date), ret[i].date.ord - start_date.ord)

\* a search that returned both ends of its window
C5_Witness ==
    /\ Returned("find_available_dates")
    /\ days_ahead = MaxDaysAhead
    /\ start_date.hour # 0
    /\ start_date.ord + 1 \in ReturnedDays
    /\ start_date.ord + days_ahead \in ReturnedDays

-----------------------------------------------------------------------------
(* C6 *)

NeedsFix(e) == should_be_free(e) /\ e.status = BUSY

\* C6: find_events_needing_fix returns exactly the input events that should
\* be Free and are Busy, in input order; for the events D&D Session (Busy),
\* Vacation in Hawaii (Busy), Doctor appointment (Busy), Team meeting (Free)
\* and the default keywords the result is Vacation in Hawaii, Doctor appointment.
C6_NeedingFixIsTheFilter ==
    Returned("find_events_needing_fix") =>
        /\ ret = SelectSeq(events, NeedsFix)
        /\ (events = SampleEvents /\ dnd_keywords = DEFAULT_DND_KEYWORDS)
            => ret = <<E_Vacation, E_Doctor>>

\* the four events of the scenario were filtered
C6_Witness ==
    /\ Returned("find_events_needing_fix")
    /\ events = SampleEvents
    /\ ret = <<E_Vacation, E_Doctor>>

-----------------------------------------------------------------------------
(* C7 *)

\* was the analyzer built with the empty list for this category
BuiltWithEmpty(arg) == ~arg.isNone /\ arg.val = <<>>

\* C7: an analyzer constructed with an empty keyword list for a category
\* never matches that category: is_dnd_session is false with empty
\* dnd_keywords, is_away_event is false with empty away_keywords, and
\* detect_personal_keywords is empty with empty personal_keywords.
C7_EmptyListNeverMatches ==
    /\ (Returned("is_dnd_session") /\ BuiltWithEmpty(ctor_args.dnd_keywords)) => ~ret
    /\ (Returned("is_away_event") /\ BuiltWithEmpty(ctor_args.away_keywords)) => ~ret
    /\ (Returned("detect_personal_keywords") /\ BuiltWithEmpty(ctor_args.personal_keywords))
        => ret = <<>>

-----------------------------------------------------------------------------
(* C8 *)

MatchesAsWord(kw) == OccursAsWord(kw, SearchText(event))

\* C8: detect_personal_keywords returns exactly the keywords of
\* personal_keywords, in their order, that occur in "summary description",
\* whatever the case, bounded by word boundaries; "date" is not found in
\* "Updated plans" and "doctor" is found in "Doctor's visit".
C8_PersonalKeywordsAreWholeWords ==
    Returned("detect_personal_keywords") =>
        /\ ret = SelectSeq(personal_keywords, MatchesAsWord)
        /\ (event.summary = T_Updated /\ event.description.isNone)
            => \A i \in DOMAIN ret : lower(ret[i]) # CUSTOM_PERSONAL_KEYWORDS[3]
        /\ event.summary = T_DoctorsVisit
            => \A k \in DOMAIN personal_keywords :
                   lower(personal_keywords[k]) = DEFAULT_PERSONAL_KEYWORDS[2]
                   => \E i \in DOMAIN ret : ret[i] = personal_keywords[k]

\* "Updated plans" was searched for "date" and nothing was found
C8_Witness ==
    /\ Returned("detect_personal_keywords")
    /\ event.summary = T_Updated
    /\ event.description.isNone
    /\ \E k \in DOMAIN personal_keywords : personal_keywords[k] = CUSTOM_PERSONAL_KEYWORDS[3]
    /\ ret = <<>>

-----------------------------------------------------------------------------
(* C9 *)

\* the calendar days an all-day event covers (its end date is the first day
\* after it, as the calendar API gives it)
DaysCovered(e) == {d \in e.start.ord..(e.end.ord - 1) : TRUE}

AwayOrMultiDay(e) ==
    \/ KeywordInTitle(away_keywords, e.summary)
    \/ e.all_day /\ Cardinality(DaysCovered(e)) > 1

\* C9: find_away_events returns exactly the input events, in input order,
\* whose title contains an away keyword or that are all-day and span more
\* than one calendar day; a multi-day all-day event with no keyword match is
\* included, a single-day all-day event with no keyword match is not.
C9_AwayEventsAreTheFilter ==
    Returned("find_away_events") => ret = SelectSeq(events, AwayOrMultiDay)

\* a two-day and a one-day all-day event, neither matching a keyword: the
\* first was returned, the second was not
C9_Witness ==
    /\ Returned("find_away_events")
    /\ events = <<E_ConfTwoDays, E_ConfOneDay>>
    /\ ~is_away_event(E_ConfTwoDays)
    /\ ret = <<E_ConfTwoDays>>

-----------------------------------------------------------------------------
(* C10 *)

\* the weekday name of a calendar day equals the name given, whatever the case
IsWeekday(day, name) ==
    \E k \in DOMAIN DayNames :
        /\ (day + 6) % 7 = k - 1
        /\ lower(DayNames[k]) = lower(name)

\* the days of the window on which no input event starts
FreeDays == Window \ StartDays

\* every returned day is of the preferred weekday, and every day of the
\* window of that weekday on which no event starts is returned
FilteredBy(name) ==
    /\ \A d \in ReturnedDays : IsWeekday(d, name)
    /\ \A d \in FreeDays : IsWeekday(d, name) => d \in ReturnedDays

-----------------------------------------------------------------------------
(* C11 *)

\* C11: with an empty event list, no preferred_day and days_ahead = n >= 0,
\* find_available_dates returns exactly n slots, whose dates are the n
\* consecutive days midnight(start_date) + 1 .. midnight(start_date) + n, each
\* slot with no start_time and no end_time.
C11_EveryDayOfAnEmptyCalendar ==
    Returned("find_available_dates") /\ events = <<>> /\ preferred_day.isNone
            /\ days_ahead >= 0 =>
        /\ Len(ret) = days_ahead
        /\ \A i \in 1..days_ahead :
              /\ ret[i].date = add_days(midnight(start_date), i)
              /\ ret[i].start_time.isNone
              /\ ret[i].end_time.isNone

\* a search of the longest window over an empty calendar
C11_Witness ==
    /\ Returned("find_available_dates")
    /\ events = <<>>
    /\ preferred_day.isNone
    /\ days_ahead = MaxDaysAhead
    /\ Len(ret) = MaxDaysAhead

-----------------------------------------------------------------------------
(* C12 *)

\* C12: for every event list and start_date, find_available_dates with
\* days_ahead <= 0 returns the empty list (and returns: it raises nothing).
C12_NoDaysAheadNoSlots ==
    pc = "returned" /\ op = "find_available_dates" /\ days_ahead <= 0 => ret = <<>>

\* a search with a negative days_ahead over a calendar that has events
C12_Witness ==
    /\ Returned("find_available_dates")
    /\ days_ahead < 0
    /\ events # <<>>
    /\ ret = <<>>

-----------------------------------------------------------------------------
(* C13 *)

\* C13: the returned slots are in strictly ascending chronological order
\* (hence pairwise distinct) and there are never more of them than
\* days_ahead (none when days_ahead is negative), whatever the events, their
\* order, start_date and preferred_day.
C13_AscendingAndAtMostDaysAhead ==
    Returned("find_available_dates") =>
        /\ \A i, j \in DOMAIN ret : i < j => ret[i].date.ord < ret[j].date.ord
        /\ Len(ret) <= (IF days_ahead < 0 THEN 0 ELSE days_ahead)

\* a search that returned several slots although the events were given
\* latest first
C13_Witness ==
    /\ Returned("find_available_dates")
    /\ Len(events) = 2
    /\ events[1].start.ord > events[2].start.ord
    /\ Len(ret) >= 3

-----------------------------------------------------------------------------
(* C14 *)

\* C14: an event blocks its start day whatever its category and its status,
\* and only its start day: a day of the window (of the preferred weekday, if
\* one is asked for) is returned exactly when no input event starts on it.
C14_EventBlocksItsStartDayOnly ==
    Returned("find_available_dates") =>
        \A d \in Window :
            d \in ReturnedDays <=>
                /\ d \notin StartDays
                /\ truthy(preferred_day) => IsWeekday(d, preferred_day.val)

-----------------------------------------------------------------------------
(* C15 *)

\* C15: analyze_event(event) returns a result that refers to the same event
\* and whose fields agree with the single operations: is_dnd_session,
\* should_be_free = not is_dnd_session, matched_keywords =
\* detect_personal_keywords(event), is_personal exactly when matched_keywords
\* is non-empty, category = get_category(event); hence category PERSONAL
\* implies is_personal and not is_dnd_session.
C15_AnalysisAgreesWithTheOperations ==
    Returned("analyze_event") =>
        /\ ret.event = event
        /\ ret.is_dnd_session = is_dnd_session(event)
        /\ ret.should_be_free = ~is_dnd_session(event)
        /\ ret.matched_keywords = detect_personal_keywords(event)
        /\ ret.is_personal <=> ret.matched_keywords # <<>>
        /\ ret.category = get_category(event)
        /\ ret.category = PERSONAL => ret.is_personal /\ ~ret.is_dnd_session

\* the analysis of an event that is a D&D session and holds a personal keyword
C15_Witness ==
    /\ Returned("analyze_event")
    /\ ret.is_dnd_session
    /\ ret.is_personal
    /\ ret.category = DND
    /\ ~ret.should_be_free

-----------------------------------------------------------------------------
(* C16 *)

\* the analyses of the events of evs in which a personal keyword is found
RECURSIVE AnalysesWithAMatch(_)
AnalysesWithAMatch(evs) ==
    IF evs = <<>> THEN <<>>
    ELSE (IF detect_personal_keywords(Head(evs)) # <<>>
          THEN <<analyze_event(Head(evs))>> ELSE <<>>)
         \o AnalysesWithAMatch(Tail(evs))

\* C16: find_personal_events returns, in input order, exactly the
\* analyze_event results of the events in which at least one personal keyword
\* matched (is_personal true), also when their category is DND or AWAY.
C16_PersonalEventsAreTheMatches ==
    Returned("find_personal_events") =>
        /\ ret = AnalysesWithAMatch(events)
        /\ \A i \in DOMAIN ret : ret[i].is_personal

\* a search that returned a D&D session or an away event next to a personal one
C16_Witness ==
    /\ Returned("find_personal_events")
    /\ Len(events) = 2
    /\ Len(ret) = 2
    /\ ret[1].category \in {DND, AWAY}
    /\ ret[2].category = PERSONAL

-----------------------------------------------------------------------------
(* C17 *)

\* the operations C17 is about
Operations ==
    {"is_dnd_session", "is_away_event", "detect_personal_keywords", "get_category",
     "should_be_free", "analyze_event", "find_events_needing_fix",
     "find_personal_events", "find_away_events", "find_available_dates"}

-----------------------------------------------------------------------------
(* C18 *)

\* the keyword lists of the i-th analyzer the bot built
ListsOf(i) == keyword_lists(heap, built[i])

\* the step that ends reload_event_analyzer
ReloadEnds == handler.pc = "reload_personal" /\ handler'.pc = "idle"

\* C18: the step that ends a reload builds a new analyzer and makes it the
\* bot's current one, and the analyzer a job took earlier classifies every
\* event after that step as before it; no step at all changes the keyword
\* lists an analyzer built earlier holds; and every classification is the
\* one the lists of the single analyzer it was asked of give.
C18_ReloadBuildsANewAnalyzer ==
    [][/\ \A i \in DOMAIN built :
              /\ i \in DOMAIN built'
              /\ keyword_lists(heap', built'[i]) = ListsOf(i)
       /\ ReloadEnds =>
              /\ Len(built') = Len(built) + 1
              /\ bot_event_analyzer' = Some(Len(built'))
              /\ ~held.isNone =>
                     \A e \in BotEvents :
                         get_category_of(keyword_lists(heap', built'[held.val]), e)
                             = get_category_of(ListsOf(held.val), e)
       /\ (pc = "ready" /\ pc' = "returned") =>
              ret' = get_category_of(ListsOf(held.val), event')
      ]_vars

\* after a keyword command and its reload, a job still holds the analyzer it
\* took before and got from it a category the current analyzer does not give
C18_Witness ==
    /\ handler.pc = "idle"
    /\ handler.commands > 0
    /\ ~held.isNone
    /\ ~bot_event_analyzer.isNone
    /\ held.val < bot_event_analyzer.val
    /\ ListsOf(held.val) # ListsOf(bot_event_analyzer.val)
    /\ Returned("get_category")
    /\ ret # get_category_of(ListsOf(bot_event_analyzer.val), event)

-----------------------------------------------------------------------------
(* C19 *)

\* the default keywords of a category
DefaultKeywords ==
    [dnd |-> DEFAULT_DND_KEYWORDS, away |-> DEFAULT_AWAY_KEYWORDS,
     personal |-> DEFAULT_PERSONAL_KEYWORDS]

\* the keywords the bot's current analyzer has for a category
CurrentKeywords(category) ==
    IF category = "dnd" THEN ListsOf(bot_event_analyzer.val).dnd_keywords
    ELSE IF category = "away" THEN ListsOf(bot_event_analyzer.val).away_keywords
    ELSE ListsOf(bot_event_analyzer.val).personal_keywords

\* C19: once the bot has set up and no command is in progress, for every
\* category that has no keyword list in storage the bot's analyzer has
\* exactly the default keywords of that category.
C19_DefaultsWithoutOverride ==
    handler.pc = "idle" /\ ~bot_event_analyzer.isNone =>
        \A category \in Categories :
            get_keywords(stored, category).isNone =>
                Range(CurrentKeywords(category)) = Range(DefaultKeywords[category])

-----------------------------------------------------------------------------
(* C20 *)

\* the minutes from the midnight of day 0 to the wall-clock time of d
WallMinutes(d) == (d.ord * 24 + d.hour) * 60 + d.minute

\* C20: create_dnd_event returns, for every date, title and duration_hours,
\* an event with status Busy and an empty id whose end is duration_hours
\* hours (4 when left out) after its start and whose start is the date given,
\* except that a date of hour 0 and minute 0 is moved to 18:00 of its day.
C20_SessionEventFromADate ==
    Returned("create_dnd_event") =>
        LET date == args.val.date
            hours == IF args.val.duration_hours.isNone THEN 4
                     ELSE args.val.duration_hours.val
        IN  /\ ret.status = BUSY
            /\ ret.id = ""
            /\ WallMinutes(ret.end) - WallMinutes(ret.start) = 60 * hours
            /\ ret.end.aware = ret.start.aware /\ ret.end.off = ret.start.off
            /\ ret.end.hour \in 0..23
            /\ IF date.hour = 0 /\ date.minute = 0
               THEN ret.start = [date EXCEPT !.hour = 18]
               ELSE ret.start = date

\* a session asked for at 00:30 with no duration: it stays at 00:30 and
\* lasts four hours
C20_Witness ==
    /\ Returned("create_dnd_event")
    /\ args.val.date.hour = 0
    /\ args.val.date.minute = 30
    /\ args.val.duration_hours.isNone
    /\ ret.start = args.val.date
    /\ ret.end.hour = 4

-----------------------------------------------------------------------------
(* C21 *)

\* the start of the dict that was passed in, {} if it has none
StartData == get(args.val.event.start, NoDate)

\* C21: whenever from_google_event returns an event, the event is Free if
\* the dict's transparency is "transparent" and Busy if it is anything else
\* or the dict has none, and it is all-day if and only if the dict's start
\* has the key "date", so not when the start has "dateTime" only.
C21_StatusAndAllDayFromTheDict ==
    (Returned("from_google_event") /\ ~has_raised(ret)) =>
        /\ ret.status = FREE <=> args.val.event.transparency = Some("transparent")
        /\ ret.status = BUSY <=> args.val.event.transparency # Some("transparent")
        /\ ret.all_day <=> ~StartData.date.isNone
        /\ (StartData.date.isNone /\ ~StartData.dateTime.isNone) => ~ret.all_day

\* an all-day event is read from a dict that has no transparency and comes out Busy
C21_Witness ==
    /\ Returned("from_google_event")
    /\ ~has_raised(ret)
    /\ event = None
    /\ args.val.event.transparency = None
    /\ ret.status = BUSY
    /\ ~StartData.date.isNone
    /\ ret.all_day

-----------------------------------------------------------------------------
(* C30 *)

\* C30: whenever the dict to_google_event wrote for an event e is read back
\* by from_google_event, the result has e's summary, status and all_day,
\* e's description if that is not empty, e's start and end if e is timed,
\* and the days of e's start and end if e is all-day.
C30_RoundTripKeepsTheEvent ==
    (Returned("from_google_event") /\ event # None) =>
        /\ ~has_raised(ret)
        /\ ret.summary = event.summary
        /\ ret.status = event.status
        /\ ret.all_day = event.all_day
        /\ truthy(event.description) => ret.description = event.description
        /\ ~event.all_day => (ret.start = event.start /\ ret.end = event.end)
        /\ event.all_day => (ret.start.ord = event.start.ord /\ ret.end.ord = event.end.ord)

\* an all-day event that has a time of day, a tzinfo and a description has
\* gone through both conversions
C30_Witness ==
    /\ Returned("from_google_event")
    /\ event # None
    /\ event.all_day
    /\ event.start.aware
    /\ event.start.hour # 0
    /\ truthy(event.description)
    /\ ret.all_day
    /\ ret.start.ord = event.start.ord

-----------------------------------------------------------------------------
(* C22 *)

\* a step in which create_scheduling_poll is called and returns
CreateReturns == pc = "ready" /\ pc' = "returned" /\ op' = "create_scheduling_poll"

\* C22: a call of create_scheduling_poll with an empty list of slots returns
\* None, sends no message to the channel and creates no poll record and no
\* poll option in storage.
C22_NoSlotsNoPoll ==
    [][(CreateReturns /\ args'.val.available_slots = <<>>) =>
          /\ ret' = None
          /\ discord'.messages = discord.messages
          /\ db'.polls = db.polls
          /\ db'.poll_options = db.poll_options]_vars

\* create_scheduling_poll has returned None for no slots while the channel
\* and storage hold an earlier poll
C22_Witness ==
    /\ Returned("create_scheduling_poll")
    /\ args.val.available_slots = <<>>
    /\ ret = None
    /\ Len(discord.messages) = 1
    /\ Len(db.polls) = 1
    /\ Len(db.poll_options) = 2

-----------------------------------------------------------------------------
(* C25 *)

\* a step in which close_poll_and_get_winner is called and returns
CloseReturns == pc = "ready" /\ pc' = "returned" /\ op' = "close_poll_and_get_winner"

\* the answers of the message that was passed in, none if it has no poll
AnswersOf(message) == IF message.poll.isNone THEN <<>> ELSE message.poll.val.answers

\* the first answer that no answer has more votes than
TopAnswer(answers) ==
    CHOOSE i \in 1..Len(answers) :
        \A j \in 1..Len(answers) :
            /\ answers[j].vote_count <= answers[i].vote_count
            /\ j < i => answers[j].vote_count < answers[i].vote_count

\* the date that should win: the stored option of the top answer, if any
\* answer has a vote
Winner(st, poll_record, message) ==
    IF \A i \in 1..Len(AnswersOf(message)) : AnswersOf(message)[i].vote_count = 0
    THEN None
    ELSE Some(get_poll_options(st, poll_record.id)[TopAnswer(AnswersOf(message))].date)

\* C25: close_poll_and_get_winner returns the stored option date of the
\* answer with the most votes, of the first such answer on a tie, and None
\* if no answer has a vote or the message has no poll; if it returns a date
\* the poll's row in storage is closed and has that winning date and nothing
\* else changes, and if it returns None storage does not change at all.
C25_WinnerIsTheFirstTopAnswer ==
    [][CloseReturns =>
          LET poll_record == args'.val.poll_record
              winner == Winner(db, poll_record, args'.val.message)
          IN  /\ ret' = winner
              /\ winner = None => db' = db
              /\ winner # None =>
                    /\ db'.poll_options = db.poll_options
                    /\ Len(db'.polls) = Len(db.polls)
                    /\ \A k \in 1..Len(db.polls) :
                          IF db.polls[k].id = poll_record.id
                          THEN row_to_poll(db'.polls[k])
                                   = [poll_record EXCEPT !.closed = TRUE,
                                                         !.winning_date = winner]
                          ELSE db'.polls[k] = db.polls[k]]_vars

\* a poll of two answers with one vote each was closed and the first won
C25_Witness ==
    /\ Returned("close_poll_and_get_winner")
    /\ Len(AnswersOf(args.val.message)) = 2
    /\ \A i \in 1..2 : AnswersOf(args.val.message)[i].vote_count = 1
    /\ ret = Some(get_poll_options(db, args.val.poll_record.id)[1].date)
    /\ \E k \in 1..Len(db.polls) :
          /\ db.polls[k].id = args.val.poll_record.id
          /\ db.polls[k].closed = 1

\* the update_event_status calls a step makes
CallsOfTheStep ==
    {gcal'.updates[k] : k \in (Len(gcal.updates) + 1)..Len(gcal'.updates)}

\* the events of the run's fetch with this id
FetchedAs(id) ==
    {tasks.hygiene.events[k] : k \in {j \in DOMAIN tasks.hygiene.events :
                                          tasks.hygiene.events[j].id = id}}

\* C23: a step of the hygiene sync calls update_event_status only with status
\* Free and only for an event it fetched as Busy and does not classify as a
\* D&D session; it changes the status of no event it classifies as a D&D
\* session and sets no event to Busy
C23_SyncOnlyFreesBusyNonDndEvents ==
    [][tasks' # tasks =>
          /\ \A u \in CallsOfTheStep :
                /\ u.status = FREE
                /\ \E e \in FetchedAs(u.event_id) : e.status = BUSY /\ ~is_dnd_session(e)
          /\ \A k \in DOMAIN gcal.items :
                gcal'.items[k].transparency # gcal.items[k].transparency =>
                    /\ gcal'.items[k].transparency = Some(FREE)
                    /\ ~is_dnd_session(from_google_event(gcal.items[k]))]_vars

\* C23 witness: the sync has set a fetched event to Free while a D&D session
\* of the same calendar is still Busy
C23_Witness ==
    /\ "hygiene" \in DOMAIN tasks
    /\ \E u \in Range(gcal.updates), k, d \in DOMAIN gcal.items :
          /\ gcal.items[k].id = Some(u.event_id)
          /\ gcal.items[k].transparency = Some(FREE)
          /\ \E e \in FetchedAs(u.event_id) : e.status = BUSY
          /\ is_dnd_session(from_google_event(gcal.items[d]))
          /\ gcal.items[d].transparency = Some(BUSY)

Due(i) ==
    /\ i \in DOMAIN db.polls
    /\ db.polls[i].closed = 0
    /\ utc_minutes(utcnow(now)) >= utc_minutes(row_to_poll(db.polls[i]).closes_at)

\* the "no votes were cast" notifications in the channel about a poll
NoVotesNotices(id) ==
    {k \in DOMAIN discord.notices : discord.notices[k] = [kind |-> "no_votes", about |-> id]}

C29_ConfirmationOneHourBeforePoll ==
    scheduler # <<>> =>
        /\ (fire_minute(scheduler.weekly_poll)
               - fire_minute(scheduler.vacation_confirmation)) % 10080 = 60
        /\ scheduler.vacation_confirmation.minute = scheduler.weekly_poll.minute

\* the reminder DMs a user has got for a session
RemindersTo(d, user, session_id) ==
    {k \in DOMAIN d.dms :
        d.dms[k] = [to |-> user, kind |-> "reminder", about |-> session_id]}

\* the reminder DMs a step sends
RemindersOfTheStep ==
    {discord'.dms[k] : k \in (Len(discord.dms) + 1)..Len(discord'.dms)}

-----------------------------------------------------------------------------
(* C27 *)

\* the step that ends the reload of a /keywords remove that removed the
\* keyword: the command's list is the one it stored, without the keyword
RemovalReloaded ==
    /\ ReloadEnds
    /\ handler.keyword # <<>>
    /\ ~has_keyword(heap[handler.keywords], handler.keyword)

\* the keywords the analyzer the step makes current has for a category
ReloadedKeywords(category) ==
    LET lists == keyword_lists(heap', built'[bot_event_analyzer'.val])
    IN  IF category = "dnd" THEN lists.dnd_keywords
        ELSE IF category = "away" THEN lists.away_keywords
        ELSE lists.personal_keywords

\* C27: after a /keywords remove that removed keyword K from a category,
\* whatever list held K, the analyzer the bot has once the reload has ended
\* does not have K among the keywords of that category.
C27_RemovedKeywordIsGoneAfterReload ==
    [][RemovalReloaded =>
           ~has_keyword(ReloadedKeywords(handler.category), handler.keyword)]_vars

====
